---- MODULE Spec2Model ----
(***************************************************************************)
(* The %sql command interpreter of the Db2 Jupyter notebooks: the          *)
(* transaction directives (AUTOCOMMIT, COMMIT, ROLLBACK), PREPARE and      *)
(* EXECUTE with their statement handles, and the text macro engine         *)
(* (define, invocation, echo/exit/return/var, if/else/endif).              *)
(*                                                                         *)
(* The notebooks under src/ document and call the interpreter; the         *)
(* interpreter itself (db2.ipynb, loaded by %run) is not among them.       *)
(* What the notebooks state is modelled from their text; what only the     *)
(* specification states is modelled from the specification.                *)
(***************************************************************************)
EXTENDS Integers, Sequences, FiniteSets, TLC

VARIABLES
    autocommit,   \* TransactionState.autocommit
    stmts,        \* the PreparedStatements returned so far; the handle is the index
    live,         \* the handles that are still valid
    driverRuns,   \* per handle: how often the driver ran the prepared statement
    okExecutes,   \* per handle: how many EXECUTE commands of it succeeded
    committed,    \* history: handles prepared before some COMMIT without HOLD
    rolledBack,   \* history: handles prepared before some ROLLBACK
    lastCmd,      \* the last command and what it did
    registry,     \* MacroRegistry: case-folded macro name -> body
    exp,          \* the MacroExpander: its state, position, if-stack, SQL buffer, scope
    display,      \* the messages the current command has displayed
    typed,        \* the leading keyword of the command the dispatcher received last
    defs,         \* history: the define commands so far, <<name as typed, body>>
    pending,      \* the statements of SQL blocks applied in the open transaction
    durable,      \* the statements of SQL blocks applied and committed
    other,        \* a second session: its autocommit flag, handles and registry
    scan          \* the Tokenizer: the line it was given last and the tokens it made

vars == <<autocommit, stmts, live, driverRuns, okExecutes, committed, rolledBack,
          lastCmd, registry, exp, display, typed, defs, pending, durable, other, scan>>

txnVars == <<autocommit, stmts, live, driverRuns, okExecutes, committed, rolledBack,
             pending, durable>>
macroVars == <<registry, exp, display, typed, defs>>

----------------------------------------------------------------------------
(* Bounds of the model *)

MaxHandles == 2     \* PREPAREs per session
MaxExec == 1        \* driver executions counted per handle
MaxGroups == 2      \* parameter-marker groups in a generated PREPARE text
MaxStar == 2        \* N of a generated ?*N group
MaxArgs == 2        \* arguments of a generated USING list
MaxElems == 2       \* elements of a generated container argument

----------------------------------------------------------------------------
(* PREPARE texts: a sequence of items, each other SQL text, a comma, a     *)
(* bare parameter marker ? or a shorthand group ?*N.                       *)

Txt == [t |-> "txt", n |-> 0]
CM == [t |-> "comma", n |-> 0]
QM == [t |-> "q", n |-> 0]
Star(n) == [t |-> "star", n |-> n]

Group == {QM} \cup {Star(n) : n \in 1..MaxStar}

RECURSIVE Joined(_)
\* the groups of a VALUES list, separated by commas
Joined(gs) ==
    IF Len(gs) = 0 THEN <<>>
    ELSE IF Len(gs) = 1 THEN <<gs[1]>>
    ELSE <<gs[1], CM>> \o Joined(Tail(gs))

GroupLists == UNION {[1..k -> Group] : k \in 0..MaxGroups}

\* INSERT INTO X VALUES (?,?,?,?,?,?,?,?,?,?)
TenMarkers == <<Txt>> \o Joined([i \in 1..10 |-> QM]) \o <<Txt>>
\* INSERT INTO X VALUES (?*10)
StarTen == <<Txt, Star(10), Txt>>
\* INSERT INTO X VALUES (?*3,?*7)
StarThreeSeven == <<Txt, Star(3), CM, Star(7), Txt>>
\* insert into x values (CAST(? AS INTEGER))
CastMarker == <<Txt, QM, Txt>>

PrepareTexts ==
    {<<Txt>> \o Joined(gs) \o <<Txt>> : gs \in GroupLists}
        \cup {TenMarkers, StarTen, StarThreeSeven, CastMarker}

\* the texts prepared in the sessions that follow handles through transactions
SessionTexts == {CastMarker, StarThreeSeven}

RECURSIVE MarkersShort(_)
\* ?*N written out one marker short
MarkersShort(n) == IF n <= 2 THEN <<QM>> ELSE <<QM, CM>> \o MarkersShort(n - 1)

RECURSIVE Markers(_)
\* ?*N written out: N markers separated by commas
Markers(n) == IF n <= 1 THEN <<QM>> ELSE <<QM, CM>> \o Markers(n - 1)

RECURSIVE ExpandShorthand(_)
\* every ?*N group of the text replaced by its N markers
ExpandShorthand(text) ==
    IF text = <<>> THEN <<>>
    ELSE (IF Head(text).t = "star" THEN Markers(Head(text).n) ELSE <<Head(text)>>)
             \o ExpandShorthand(Tail(text))

\* the parameter markers of a text sent for preparation
CountMarkers(text) == Cardinality({i \in DOMAIN text : text[i].t = "q"})

PreparedStatement(src) ==
    LET text == ExpandShorthand(src)
    IN  [src |-> src, text |-> text, parameterCount |-> CountMarkers(text)]

----------------------------------------------------------------------------
(* USING lists: each argument is a scalar or an ordered container.         *)

Scalar == [kind |-> "scalar", vals |-> <<0>>]
Container(k) == [kind |-> "container", vals |-> [i \in 1..k |-> i]]

\* a variable that holds the value v, and an array that holds the values vals
ScalarOf(v) == [kind |-> "scalar", vals |-> <<v>>]
ContainerOf(vals) == [kind |-> "container", vals |-> vals]

\* the values v1 .. v10 of a row of ten columns
TenValues == [i \in 1..10 |-> i]

\* EXECUTE :stmt USING v1,v2,v3,v4,v5,v6,v7,v8,v9,v10
Individually == [i \in 1..10 |-> ScalarOf(TenValues[i])]

\* EXECUTE :stmt USING :name, :details, the ten values split at any place
TwoArrays ==
    {<<ContainerOf(SubSeq(TenValues, 1, k)), ContainerOf(SubSeq(TenValues, k + 1, 10))>> :
        k \in 0..10}

Arg == {Scalar} \cup {Container(k) : k \in 0..MaxElems}

UsingLists ==
    UNION {[1..k -> Arg] : k \in 1..MaxArgs}
        \cup { [i \in 1..10 |-> Scalar],
               <<Container(10)>>,
               <<Container(3), Container(7)>>,
               <<Container(9)>>,
               <<Container(3), Container(6)>>,
               Individually,
               <<ContainerOf(TenValues)>> }
        \cup TwoArrays

SessionUsing == {<<Scalar>>, <<Container(3), Container(7)>>}

\* a USING list whose containers are bound as one value each
FlattenNot(args) == [i \in DOMAIN args |-> 0]

RECURSIVE FlattenBackwards(_)
\* a USING list whose last argument is bound first
FlattenBackwards(args) ==
    IF args = <<>> THEN <<>> ELSE FlattenBackwards(Tail(args)) \o Head(args).vals

RECURSIVE Flatten(_)
\* the USING list with every container expanded in place
Flatten(args) ==
    IF args = <<>> THEN <<>> ELSE Head(args).vals \o Flatten(Tail(args))

----------------------------------------------------------------------------

\* a command that did nothing: the fields every action fills in
\* what a CALL gives back to the caller: nothing, the answer set as a data
\* frame or as an array of rows, the parameter values, or the array of rows
\* followed by the parameter values
NoValue == [shape |-> "none", rows |-> <<>>, vals |-> <<>>]

NoCmd ==
    [kind |-> "NONE", handle |-> 0, using |-> <<>>, result |-> "ok", driver |-> <<>>,
     liveBefore |-> {}, sql |-> <<>>, failure |-> "", raw |-> FALSE, value |-> NoValue,
     failedAt |-> 0, text |-> "", bound |-> <<>>]

Cmd(kind) == [NoCmd EXCEPT !.kind = kind, !.liveBefore = live]

Handles == DOMAIN stmts

----------------------------------------------------------------------------
(* Transaction directives *)

AutocommitArgs == {"ON", "OFF", "on", "Off", "MAYBE", ""}

Upper(s) ==
    CASE s = "on" -> "ON"
      [] s = "Off" -> "OFF"
      [] s = "commit" -> "COMMIT"
      [] s = "emptable" -> "EMPTABLE"
      [] s = "showif" -> "SHOWIF"
      [] s = "showvar" -> "SHOWVAR"
      [] s = "select" -> "SELECT"
      [] s = "hello" \/ s = "Hello" -> "HELLO"
      [] OTHER -> s

\* AUTOCOMMIT flips the flag
AutocommitToggles(arg) ==
    /\ IF Upper(arg) \in {"ON", "OFF"}
       THEN /\ autocommit' = ~autocommit
            /\ lastCmd' = [Cmd("AUTOCOMMIT") EXCEPT !.sql = << <<"AUTOCOMMIT", arg>> >>]
       ELSE /\ autocommit' = autocommit
            /\ lastCmd' = [Cmd("AUTOCOMMIT") EXCEPT !.result = "Error",
                                                    !.sql = << <<"AUTOCOMMIT", arg>> >>]
    /\ UNCHANGED <<stmts, live, driverRuns, okExecutes, committed, rolledBack,
                   pending, durable>>
    /\ UNCHANGED <<macroVars, other, scan>>

Autocommit(arg) ==
    /\ IF Upper(arg) \in {"ON", "OFF"}
       THEN /\ autocommit' = (Upper(arg) = "ON")
            /\ lastCmd' = [Cmd("AUTOCOMMIT") EXCEPT !.sql = << <<"AUTOCOMMIT", arg>> >>]
       ELSE /\ autocommit' = autocommit
            /\ lastCmd' = [Cmd("AUTOCOMMIT") EXCEPT !.result = "Error",
                                                    !.sql = << <<"AUTOCOMMIT", arg>> >>]
    /\ UNCHANGED <<stmts, live, driverRuns, okExecutes, committed, rolledBack,
                   pending, durable>>
    /\ UNCHANGED <<macroVars, other, scan>>

CommitOptions == {"", "WORK", "HOLD"}

\* a COMMIT that keeps the statements open as COMMIT HOLD does
AfterCommitKeepsAll(opt) == live

\* a COMMIT HOLD that closes the statements as COMMIT does
AfterCommitClosesAll(opt) == {}

\* the handles that survive COMMIT [WORK | HOLD]
AfterCommit(opt) == IF opt = "HOLD" THEN live ELSE {}

Commit(opt) ==
    /\ live' = AfterCommit(opt)
    /\ committed' = IF opt = "HOLD" THEN committed ELSE committed \cup Handles
    /\ lastCmd' = [Cmd(IF opt = "HOLD" THEN "COMMIT HOLD" ELSE "COMMIT")
                       EXCEPT !.driver = <<"commit">>]
    /\ durable' = durable \cup pending
    /\ pending' = {}
    /\ UNCHANGED <<autocommit, stmts, driverRuns, okExecutes, rolledBack>>
    /\ UNCHANGED <<macroVars, other, scan>>

\* a ROLLBACK that closes the statements only when there is a transaction to undo
AfterRollbackInTxnOnly == IF autocommit THEN live ELSE {}

\* the handles that survive ROLLBACK
AfterRollback == {}

Rollback ==
    /\ live' = AfterRollback
    /\ rolledBack' = rolledBack \cup Handles
    /\ lastCmd' = [Cmd("ROLLBACK") EXCEPT !.driver = <<"rollback">>]
    /\ pending' = {}
    /\ UNCHANGED <<autocommit, stmts, driverRuns, okExecutes, committed, durable>>
    /\ UNCHANGED <<macroVars, other, scan>>

----------------------------------------------------------------------------
(* PREPARE and EXECUTE *)

\* a PREPARE that also runs the statement
PrepareAndRun == <<"prepare", "execute">>

\* the driver calls of a PREPARE: the statement is compiled, not run
PrepareDriverCalls == <<"prepare">>

\* how often a list of driver calls runs a statement
Executions(calls) == Cardinality({i \in DOMAIN calls : calls[i] = "execute"})

\* a PREPARE that gives out again the handle of a statement that was closed
PrepareReuses(src) ==
    LET closed == Handles \ live
        h == IF closed = {} THEN Len(stmts) + 1 ELSE CHOOSE x \in closed : TRUE
    IN  /\ stmts' = IF closed = {} THEN Append(stmts, PreparedStatement(src))
                    ELSE [stmts EXCEPT ![h] = PreparedStatement(src)]
        /\ live' = live \cup {h}
        /\ driverRuns' = IF closed = {} THEN Append(driverRuns, Executions(PrepareDriverCalls))
                         ELSE driverRuns
        /\ okExecutes' = IF closed = {} THEN Append(okExecutes, 0) ELSE okExecutes
        /\ lastCmd' = [Cmd("PREPARE") EXCEPT !.handle = h, !.driver = PrepareDriverCalls]
        /\ UNCHANGED <<autocommit, committed, rolledBack, pending, durable>>
        /\ UNCHANGED <<macroVars, other, scan>>

Prepare(src) ==
    /\ stmts' = Append(stmts, PreparedStatement(src))
    /\ live' = live \cup {Len(stmts) + 1}
    /\ driverRuns' = Append(driverRuns, Executions(PrepareDriverCalls))
    /\ okExecutes' = Append(okExecutes, 0)
    /\ lastCmd' = [Cmd("PREPARE") EXCEPT !.handle = Len(stmts) + 1,
                                         !.driver = PrepareDriverCalls]
    /\ UNCHANGED <<autocommit, committed, rolledBack, pending, durable>>
    /\ UNCHANGED <<macroVars, other, scan>>

DriverOutcomes == {"ok", "error", "lost"}

\* no driver failure touches the handles
AfterFailureKeeps(drv) == live

\* the live handles after a driver failure: a lost connection invalidates all
AfterFailure(drv) == IF drv = "lost" THEN {} ELSE live

\* work that was not committed is lost with the connection
\* a statement whose implicit commit closes the prepared statements as COMMIT does
AfterStatementCommitCloses == IF autocommit THEN {} ELSE live

\* the live handles after a statement has run: with autocommit on the
\* statement is committed at once, and the prepared statements stay
AfterStatement == live

OpenAfterFailure(drv, open) == IF drv = "lost" THEN {} ELSE open

\* the error under the name the dispatcher's description gives it
HandleCheckOtherName(h) == IF h \in live THEN "ok" ELSE "UnknownStatement"

\* EXECUTE needs a handle that a PREPARE returned and that is still valid
HandleCheck(h) == IF h \in live THEN "ok" ELSE "UnknownStatementHandle"

\* the flattened USING list must supply exactly the statement's parameters
CountCheck(h, args) ==
    IF Len(Flatten(args)) = stmts[h].parameterCount THEN "ok" ELSE "ParameterCountMismatch"

\* what EXECUTE :h USING args answers before it calls the driver
ExecuteCheck(h, args) ==
    IF HandleCheck(h) # "ok" THEN HandleCheck(h) ELSE CountCheck(h, args)

ExecuteDriverCalls == <<"execute">>

Execute(h, args, drv) ==
    LET check == ExecuteCheck(h, args)
        cmd == [Cmd("EXECUTE") EXCEPT !.handle = h, !.using = args]
    IN  /\ UNCHANGED <<macroVars, other, scan>>
        /\ IF check # "ok"
           THEN /\ lastCmd' = [cmd EXCEPT !.result = check]
                /\ UNCHANGED txnVars
           ELSE IF drv = "ok"
           THEN /\ driverRuns[h] < MaxExec
                /\ driverRuns' = [driverRuns EXCEPT ![h] = @ + Executions(ExecuteDriverCalls)]
                /\ okExecutes' = [okExecutes EXCEPT ![h] = @ + 1]
                /\ lastCmd' = [cmd EXCEPT !.driver = ExecuteDriverCalls,
                                          !.bound = Flatten(args)]
                /\ live' = AfterStatement
                /\ UNCHANGED <<autocommit, stmts, committed, rolledBack,
                               pending, durable>>
           ELSE /\ live' = AfterFailure(drv)
                /\ pending' = OpenAfterFailure(drv, pending)
                /\ lastCmd' = [cmd EXCEPT !.result = "DriverError", !.failure = drv,
                                          !.driver = ExecuteDriverCalls,
                                          !.bound = Flatten(args)]
                /\ UNCHANGED <<autocommit, stmts, driverRuns, okExecutes,
                               committed, rolledBack, durable>>

----------------------------------------------------------------------------
(* CALL: a procedure has parameters, each in, out or inout, and the cursors *)
(* it leaves open; values are written as text.                              *)

Cursor(cols, rows) == [cols |-> cols, rows |-> rows]

Procedure(name, params, sets, cursors) ==
    [name |-> name, params |-> params, sets |-> sets, cursors |-> cursors]

Employees == Cursor(<<"FIRSTNME", "LASTNAME">>, << <<"CHRISTINE", "HAAS">>, <<"MICHAEL", "THOMPSON">> >>)
OneEmployee == Cursor(<<"EMPNO", "LASTNAME">>, << <<"000010", "HAAS">> >>)
Department == Cursor(<<"EMPNO", "WORKDEPT">>, << <<"000090", "E11">>, <<"000280", "E11">> >>)

\* CREATE OR REPLACE PROCEDURE SHOWEMP
ShowEmpAll == Procedure("SHOWEMP", <<>>, <<>>, <<Employees>>)
\* CREATE OR REPLACE PROCEDURE SHOWEMP(in inempno char(6))
ShowEmp == Procedure("SHOWEMP", <<"in">>, <<"">>, <<OneEmployee>>)
\* create or replace procedure showdept(in indeptno char(3), out rowcount int)
ShowDept == Procedure("SHOWDEPT", <<"in", "out">>, <<"", "2">>, <<Department>>)
\* create or replace procedure oneparm (inout r INT)
OneParm == Procedure("ONEPARM", <<"inout">>, <<"2">>, <<>>)
\* CREATE or REPLACE PROCEDURE DEPTCOUNT(in indeptno char(3), out rowcount int)
DeptCount == Procedure("DEPTCOUNT", <<"in", "out">>, <<"", "2">>, <<>>)
\* a procedure with no parameter and no answer set
Silent == Procedure("SILENT", <<>>, <<>>, <<>>)
\* a procedure that leaves two cursors open
TwoCursors == Procedure("TWOCURSORS", <<"out">>, <<"2">>, <<Employees, Department>>)

\* the argument lists of the calls
CallArgs(proc) ==
    IF proc.params = <<>> THEN {<<>>}
    ELSE IF proc.params = <<"in">> THEN {<<"000010">>}
    ELSE IF proc.params = <<"inout">> THEN {<<"1">>}
    ELSE IF proc.params = <<"out">> THEN {<<"null">>}
    ELSE {<<"E11", "null">>}

\* only the values the procedure gives back: out and inout parameters
FinalsOutOnly(proc, args) ==
    LET outs == {i \in DOMAIN proc.params : proc.params[i] # "in"}
        Nth[k \in 0..Len(proc.params)] ==
            IF k = 0 THEN 0 ELSE CHOOSE i \in outs : Cardinality({j \in outs : j <= i}) = k
    IN  [k \in 1..Cardinality(outs) |-> proc.sets[Nth[k]]]

\* the parameters after the call, in declared order: an in parameter as it
\* was passed, an out or inout parameter as the procedure set it
Finals(proc, args) ==
    [i \in DOMAIN proc.params |-> IF proc.params[i] = "in" THEN args[i] ELSE proc.sets[i]]

\* the array of rows of an answer set: the column names, then the rows
ArrayOfRows(cursor) == <<cursor.cols>> \o cursor.rows

\* the answer set comes with the parameter values whether -r was given or not
CallResultWithParameters(proc, args, raw) ==
    LET finals == Finals(proc, args)
    IN  IF proc.cursors # <<>>
        THEN [shape |-> "composite", rows |-> ArrayOfRows(proc.cursors[1]), vals |-> finals]
        ELSE IF finals = <<>> THEN NoValue
        ELSE [shape |-> "values", rows |-> <<>>, vals |-> finals]

\* what the CALL gives back. Only the first cursor is processed. Without -r
\* only the answer set is returned; with -r the first value is the array of
\* rows and the subsequent values are the parameters. A procedure without
\* answer set returns the parameters, or None if there are none.
CallResult(proc, args, raw) ==
    LET finals == Finals(proc, args)
    IN  IF proc.cursors # <<>>
        THEN (IF ~raw
              THEN [shape |-> "frame", rows |-> ArrayOfRows(proc.cursors[1]), vals |-> <<>>]
              ELSE IF finals = <<>>
              THEN [shape |-> "rows", rows |-> ArrayOfRows(proc.cursors[1]), vals |-> <<>>]
              ELSE [shape |-> "composite", rows |-> ArrayOfRows(proc.cursors[1]),
                    vals |-> finals])
        ELSE IF finals = <<>> THEN NoValue
        ELSE [shape |-> "values", rows |-> <<>>, vals |-> finals]

CallDriverCalls == <<"call">>

\* after a lost connection the session is back in its initial mode
CallResetsOnLoss(proc, args, raw, drv) ==
    LET cmd == [Cmd("CALL") EXCEPT !.driver = CallDriverCalls,
                                   !.sql = << <<"CALL", proc.name>> \o args >>,
                                   !.raw = raw]
    IN  /\ UNCHANGED <<macroVars, other, scan>>
        /\ IF drv = "ok"
           THEN /\ lastCmd' = [cmd EXCEPT !.value = CallResult(proc, args, raw)]
                /\ UNCHANGED txnVars
           ELSE /\ live' = AfterFailure(drv)
                /\ pending' = OpenAfterFailure(drv, pending)
                /\ autocommit' = (autocommit \/ drv = "lost")
                /\ lastCmd' = [cmd EXCEPT !.result = "DriverError", !.failure = drv]
                /\ UNCHANGED <<stmts, driverRuns, okExecutes,
                               committed, rolledBack, durable>>

Call(proc, args, raw, drv) ==
    LET cmd == [Cmd("CALL") EXCEPT !.driver = CallDriverCalls,
                                   !.sql = << <<"CALL", proc.name>> \o args >>,
                                   !.raw = raw]
    IN  /\ UNCHANGED <<macroVars, other, scan>>
        /\ IF drv = "ok"
           THEN /\ lastCmd' = [cmd EXCEPT !.value = CallResult(proc, args, raw)]
                /\ UNCHANGED txnVars
           ELSE /\ live' = AfterFailure(drv)
                /\ pending' = OpenAfterFailure(drv, pending)
                /\ lastCmd' = [cmd EXCEPT !.result = "DriverError", !.failure = drv]
                /\ UNCHANGED <<autocommit, stmts, driverRuns, okExecutes,
                               committed, rolledBack, durable>>

----------------------------------------------------------------------------
(* SQL blocks: the statements of a block go to the driver one after the     *)
(* other. A statement is written as its number in the block.               *)

MaxBlock == 3       \* statements in a block

Block(k) == [i \in 1..k |-> i]

Blocks == {Block(k) : k \in 1..MaxBlock}

\* a block that fails leaves nothing applied
AppliedAllOrNothing(block, failAt, goesOn) ==
    IF failAt = 0 THEN {block[i] : i \in DOMAIN block} ELSE {}

\* the statements of the block that the driver has applied: all of them, or
\* when statement failAt fails, those before it and, if the block goes on
\* after the error, those after it
Applied(block, failAt, goesOn) ==
    {block[i] : i \in {j \in DOMAIN block :
                           failAt = 0 \/ j < failAt \/ (goesOn /\ j > failAt)}}

\* the driver calls of the block: one for each statement sent
BlockDriverCalls(block, failAt, goesOn) ==
    [i \in 1..(IF failAt = 0 \/ goesOn THEN Len(block) ELSE failAt) |-> "sql"]

\* Runs a block. With autocommit on, each statement that succeeds is
\* committed at once, with the work before it; with autocommit off it stays
\* in the open transaction. Whether the block goes on after a failed
\* statement is not stated; after a lost connection it cannot.
RunBlock(block, failAt, drv, goesOn) ==
    LET done == Applied(block, failAt, goesOn)
        hardened == IF autocommit /\ done # {} THEN pending \cup done ELSE {}
        open == IF autocommit THEN pending \ hardened ELSE pending \cup done
        cmd == [Cmd("SQL") EXCEPT !.sql = <<block>>, !.failedAt = failAt,
                                  !.driver = BlockDriverCalls(block, failAt, goesOn)]
    IN  /\ failAt \in 0..Len(block)
        /\ drv = "ok" <=> failAt = 0
        /\ drv = "lost" => ~goesOn
        /\ durable' = durable \cup hardened
        /\ pending' = OpenAfterFailure(drv, open)
        /\ live' = IF drv = "ok" THEN AfterStatement ELSE AfterFailure(drv)
        /\ lastCmd' = IF failAt = 0 THEN cmd
                      ELSE [cmd EXCEPT !.result = "DriverError", !.failure = drv]
        /\ UNCHANGED <<autocommit, stmts, driverRuns, okExecutes, committed, rolledBack>>
        /\ UNCHANGED <<macroVars, other, scan>>

----------------------------------------------------------------------------
(* Macro bodies: a sequence of lines. A text is a sequence of pieces, each *)
(* literal text or a {...} reference; a substituted text is the sequence   *)
(* of its words.                                                           *)

MaxDepth == 9       \* if statements nest up to 9 levels deep
MaxLines == 3       \* lines of a generated macro body
MaxTokens == 2      \* tokens after the macro name

Lit(s) == [p |-> "lit", s |-> s, n |-> 0]
Argc == [p |-> "argc", s |-> "", n |-> 0]
Pos(n) == [p |-> "pos", s |-> "", n |-> n]
Rest(n) == [p |-> "star", s |-> "", n |-> n]
Named(x) == [p |-> "name", s |-> x, n |-> 0]

Line(kw, name, a, op, b) == [kw |-> kw, name |-> name, a |-> a, op |-> op, b |-> b]
Echo(text) == Line("echo", "", text, "", <<>>)
Exit(text) == Line("exit", "", text, "", <<>>)
Return == Line("return", "", <<>>, "", <<>>)
Var(name, text) == Line("var", name, text, "", <<>>)
If(lhs, op, rhs) == Line("if", "", lhs, op, rhs)
Else == Line("else", "", <<>>, "", <<>>)
Endif == Line("endif", "", <<>>, "", <<>>)
Comment == Line("#", "", <<>>, "", <<>>)
Sql(text) == Line("sql", "", text, "", <<>>)

VarNames == {"hello", "hello2"}
NoVars == [v \in VarNames |-> [set |-> FALSE, val |-> <<>>]]

MacroNames == {"showif", "SHOWIF"}

\* macro names are told apart by their letter case
FoldExact(name) == name

\* macro names are not case sensitive
Fold(name) ==
    CASE name = "SHOWIF" -> "showif"
      [] name = "EMPTABLE" -> "emptable"
      [] name = "SHOWVAR" -> "showvar"
      [] name = "COMMIT" -> "commit"
      [] name = "ROLLBACK" -> "rollback"
      [] name = "AUTOCOMMIT" -> "autocommit"
      [] name = "PREPARE" -> "prepare"
      [] name = "EXECUTE" -> "execute"
      [] name = "CALL" -> "call"
      [] name = "Hello" \/ name = "HELLO" -> "hello"
      [] OTHER -> name

EmptyRegistry == [k \in {} |-> <<>>]

(* Classification of a command by its leading keyword *)

ReservedKeywords == {"AUTOCOMMIT", "COMMIT", "ROLLBACK", "PREPARE", "EXECUTE", "CALL"}

\* the directives are recognised before the registry is consulted
ClassifyReservedFirst(word) ==
    IF Upper(word) \in ReservedKeywords THEN Upper(word)
    ELSE IF Fold(word) \in DOMAIN registry THEN "MACRO"
    ELSE "SQL"

\* the processor first checks whether the first keyword has been defined as a
\* macro; if not, the command is a directive or regular SQL
Classify(word) ==
    IF Fold(word) \in DOMAIN registry THEN "MACRO"
    ELSE IF Upper(word) \in ReservedKeywords THEN Upper(word)
    ELSE "SQL"

\* prior records what the scope of the invocation before held: the variables
\* that were set and the number of tokens
IdleExpander ==
    [state |-> "IDLE", called |-> "", body |-> <<>>, tokens |-> <<>>, pc |-> 0,
     stack |-> <<>>, sql |-> <<>>, vars |-> NoVars, ran |-> {},
     prior |-> [vars |-> {}, argc |-> 0]]

Expanding == exp.state \in {"RUNNING", "SUPPRESSED"}

\* the variables of the invocation before are still there
KeptScope == exp.vars

\* when a macro finishes, the contents of its variables are lost: the next
\* invocation starts with no variable set
NewScope == NoVars

\* the generated SQL of the expansion before is still there
ExpansionOnTop(name, tokens) ==
    [IdleExpander EXCEPT !.state = "RUNNING", !.called = name,
                         !.body = registry[Fold(name)], !.tokens = tokens,
                         !.vars = NewScope, !.sql = exp.sql,
                         !.prior = [vars |-> {v \in VarNames : exp.vars[v].set},
                                    argc |-> Len(exp.tokens)]]

\* the expander at the start of the body of the macro called
Expansion(name, tokens) ==
    [IdleExpander EXCEPT !.state = "RUNNING", !.called = name,
                         !.body = registry[Fold(name)], !.tokens = tokens,
                         !.vars = NewScope,
                         !.prior = [vars |-> {v \in VarNames : exp.vars[v].set},
                                    argc |-> Len(exp.tokens)]]

(* Substitution *)

NumStr(n) == IF n < 10 THEN <<"0", "1", "2", "3", "4", "5", "6", "7", "8", "9">>[n + 1]
             ELSE "many"

\* the count of the tokens found, including the name of the macro
ArgCountWithName(e) == Len(e.tokens) + 1

\* the count of tokens does not include the name of the macro
ArgCount(e) == Len(e.tokens)

\* literal text that names a registered macro is taken as a call and not emitted
ValueNested(piece, e) ==
    IF piece.p = "lit"
    THEN (IF Fold(piece.s) \in DOMAIN registry THEN <<>> ELSE <<piece.s>>)
    ELSE IF piece.p = "argc" THEN <<NumStr(ArgCount(e))>>
    ELSE IF piece.p = "pos"
    THEN (IF piece.n = 0 THEN <<e.called>>
          ELSE IF piece.n <= Len(e.tokens) THEN <<e.tokens[piece.n]>>
          ELSE <<"null">>)
    ELSE IF piece.p = "star"
    THEN (IF piece.n = 0 THEN <<e.called>> \o e.tokens
          ELSE SubSeq(e.tokens, piece.n, Len(e.tokens)))
    ELSE IF e.vars[piece.s].set THEN e.vars[piece.s].val
    ELSE <<"null">>

\* {*n} stands for the tokens after token n
ValueTailAfter(piece, e) ==
    IF piece.p = "lit" THEN <<piece.s>>
    ELSE IF piece.p = "argc" THEN <<NumStr(ArgCount(e))>>
    ELSE IF piece.p = "pos"
    THEN (IF piece.n = 0 THEN <<e.called>>
          ELSE IF piece.n <= Len(e.tokens) THEN <<e.tokens[piece.n]>>
          ELSE <<"null">>)
    ELSE IF piece.p = "star"
    THEN (IF piece.n = 0 THEN e.tokens
          ELSE SubSeq(e.tokens, piece.n + 1, Len(e.tokens)))
    ELSE IF e.vars[piece.s].set THEN e.vars[piece.s].val
    ELSE <<"null">>

\* a reference to something that does not exist stands for no text at all
ValueMissingEmpty(piece, e) ==
    IF piece.p = "lit" THEN <<piece.s>>
    ELSE IF piece.p = "argc" THEN <<NumStr(ArgCount(e))>>
    ELSE IF piece.p = "pos"
    THEN (IF piece.n = 0 THEN <<e.called>>
          ELSE IF piece.n <= Len(e.tokens) THEN <<e.tokens[piece.n]>>
          ELSE <<>>)
    ELSE IF piece.p = "star"
    THEN (IF piece.n = 0 THEN <<e.called>> \o e.tokens
          ELSE SubSeq(e.tokens, piece.n, Len(e.tokens)))
    ELSE IF e.vars[piece.s].set THEN e.vars[piece.s].val
    ELSE <<>>

\* the words a piece stands for in the scope of expansion e
Value(piece, e) ==
    IF piece.p = "lit" THEN <<piece.s>>
    ELSE IF piece.p = "argc" THEN <<NumStr(ArgCount(e))>>
    ELSE IF piece.p = "pos"
    THEN (IF piece.n = 0 THEN <<e.called>>
          ELSE IF piece.n <= Len(e.tokens) THEN <<e.tokens[piece.n]>>
          ELSE <<"null">>)
    ELSE IF piece.p = "star"
    THEN (IF piece.n = 0 THEN <<e.called>> \o e.tokens
          ELSE SubSeq(e.tokens, piece.n, Len(e.tokens)))
    ELSE IF e.vars[piece.s].set THEN e.vars[piece.s].val
    ELSE <<"null">>

\* the reference that a word spells, if it spells one
Braced(w) ==
    CASE w = "{1}" -> Pos(1)
      [] w = "{2}" -> Pos(2)
      [] w = "{hello}" -> Named("hello")
      [] OTHER -> Lit(w)

RECURSIVE Again(_, _)
\* the words of a value, substituted once more
Again(ws, e) == IF ws = <<>> THEN <<>> ELSE Value(Braced(Head(ws)), e) \o Again(Tail(ws), e)

RECURSIVE SubstRescans(_, _)
\* a substitution that scans the text it has inserted
SubstRescans(text, e) ==
    IF text = <<>> THEN <<>>
    ELSE (IF Head(text).p = "lit" THEN Value(Head(text), e)
          ELSE Again(Value(Head(text), e), e)) \o SubstRescans(Tail(text), e)

RECURSIVE Subst(_, _)
\* one pass over the text from left to right: what a reference stands for is
\* put in its place and not looked at again
Subst(text, e) ==
    IF text = <<>> THEN <<>> ELSE Value(Head(text), e) \o Subst(Tail(text), e)

\* quotes are stripped from both sides of a condition before they are compared
Unquote(w) ==
    IF w = "\"1\"" THEN "1" ELSE IF w = "\"\"" THEN "" ELSE w

Strip(ws) == [i \in DOMAIN ws |-> Unquote(ws[i])]

\* if <lhs> <op> <rhs>
Holds(line, e) ==
    LET l == Strip(Subst(line.a, e))
        r == Strip(Subst(line.b, e))
    IN  IF line.op \in {"=", "=="} THEN l = r
        ELSE IF line.op \in {"<>", "!="} THEN l # r
        ELSE FALSE

(* The expander: one body line per step *)

\* a line is processed only while every enclosing branch is active
Active(stack) == \A i \in DOMAIN stack : stack[i]

StateOf(stack) == IF Active(stack) THEN "RUNNING" ELSE "SUPPRESSED"

Outcome(e, d, c) == [exp |-> e, display |-> d, cmd |-> c]

Running == [Cmd("MACRO") EXCEPT !.result = "running"]

WithStack(e, stack) == [e EXCEPT !.stack = stack, !.state = StateOf(stack)]

\* a structural error reported after the SQL generated so far has been run
MalformedAfterRun(e, d) ==
    Outcome([e EXCEPT !.state = "ERROR", !.sql = <<>>], d,
            [Cmd("MACRO") EXCEPT !.result = "MalformedMacroBody", !.sql = e.sql,
                                 !.driver = IF e.sql = <<>> THEN <<>> ELSE <<"sql">>])

\* a structural error that takes back the messages displayed so far
MalformedClearsDisplay(e, d) ==
    Outcome([e EXCEPT !.state = "ERROR", !.sql = <<>>], <<>>,
            [Cmd("MACRO") EXCEPT !.result = "MalformedMacroBody"])

\* a structural error ends the command: nothing is handed on
Malformed(e, d) ==
    Outcome([e EXCEPT !.state = "ERROR", !.sql = <<>>], d,
            [Cmd("MACRO") EXCEPT !.result = "MalformedMacroBody"])

\* a return that drops the generated SQL as exit does
HandedOnNothing(sql) == <<>>

\* the SQL a finished expansion hands on for execution
HandedOn(sql) == sql

\* a statement as one string: its words, each separated with a blank space
RECURSIVE Spaced(_)
Spaced(ws) ==
    IF ws = <<>> THEN ""
    ELSE IF Len(ws) = 1 THEN ws[1]
    ELSE ws[1] \o " " \o Spaced(Tail(ws))

RECURSIVE Words(_)
\* the words of the generated lines, one line after the other
Words(sql) == IF sql = <<>> THEN <<>> ELSE Head(sql) \o Words(Tail(sql))

\* the generated SQL as the one statement that is run
Statement(sql) == Spaced(Words(sql))

\* the leading keyword of the generated SQL
FirstWord(sql) == IF sql = <<>> \/ sql[1] = <<>> THEN "" ELSE sql[1][1]

\* generated SQL that is classified again like a command
RedispatchAsCommand(sql) == Classify(FirstWord(sql))

\* the generated SQL is dispatched again as literal SQL, never as a macro or CALL
Redispatch(sql) == "SQL"

\* RETURNED: the generated SQL, if there is any, is dispatched
Returned(e, d) ==
    LET sql == HandedOn(e.sql)
        class == Redispatch(sql)
    IN  IF class = "MACRO"
        THEN Outcome(Expansion(FirstWord(sql), <<>>), d, Running)
        ELSE Outcome([e EXCEPT !.state = "RETURNED"], d,
                     [Cmd("MACRO") EXCEPT
                         !.result = "ok", !.sql = sql, !.text = Statement(sql),
                         !.driver = IF sql = <<>> THEN <<>>
                                    ELSE IF class = "CALL" THEN <<"call">>
                                    ELSE <<"sql">>])

\* an if that checks the nesting depth only in an active branch
OnIfDepthWhenActive(e, line, d) ==
    IF Active(e.stack) /\ Len(e.stack) >= MaxDepth THEN Malformed(e, d)
    ELSE Outcome(WithStack(e, Append(e.stack,
                                     IF Active(e.stack) THEN Holds(line, e) ELSE FALSE)),
                 d, Running)

OnIf(e, line, d) ==
    IF Len(e.stack) >= MaxDepth THEN Malformed(e, d)
    ELSE Outcome(WithStack(e, Append(e.stack,
                                     IF Active(e.stack) THEN Holds(line, e) ELSE FALSE)),
                 d, Running)

\* an else that turns every open if around
OnElseFlipsAll(e, d) ==
    IF e.stack = <<>> THEN Malformed(e, d)
    ELSE Outcome(WithStack(e, [i \in DOMAIN e.stack |-> ~e.stack[i]]), d, Running)

OnElse(e, d) ==
    IF e.stack = <<>> THEN Malformed(e, d)
    ELSE Outcome(WithStack(e, [e.stack EXCEPT ![Len(e.stack)] = ~@]), d, Running)

OnEndif(e, d) ==
    IF e.stack = <<>> THEN Malformed(e, d)
    ELSE Outcome(WithStack(e, SubSeq(e.stack, 1, Len(e.stack) - 1)), d, Running)

\* a skipped line that is looked at again
SkipAgain(e, d) == Outcome([e EXCEPT !.pc = @ - 1], d, Running)

Skip(e, d) == Outcome(e, d, Running)

Did(e) == [e EXCEPT !.ran = @ \cup {e.pc}]

OnEcho(e, line, d) ==
    Outcome(Did(e), Append(d, [kind |-> "echo", text |-> Subst(line.a, e)]), Running)

\* an exit that keeps the SQL generated so far
AfterExitKeeps(sql) == sql

\* the SQL buffer an exit leaves behind
AfterExit(sql) == <<>>

OnExit(e, line, d) ==
    Outcome([Did(e) EXCEPT !.state = "EXITED", !.sql = AfterExit(e.sql)],
            IF line.a = <<>> THEN d
            ELSE Append(d, [kind |-> "exit", text |-> Subst(line.a, e)]),
            [Cmd("MACRO") EXCEPT !.result = "exited"])

OnReturn(e, d) == Returned(Did(e), d)

\* a var that keeps the value a name already has
OnVarFirstWins(e, line, d) ==
    Outcome([Did(e) EXCEPT !.vars[line.name] =
                 IF @.set THEN @ ELSE [set |-> TRUE, val |-> Subst(line.a, e)]],
            d, Running)

\* var name value: the name stands for the rest of the line from now on
OnVar(e, line, d) ==
    Outcome([Did(e) EXCEPT !.vars[line.name] = [set |-> TRUE, val |-> Subst(line.a, e)]],
            d, Running)

OnSql(e, line, d) ==
    Outcome([Did(e) EXCEPT !.sql = Append(@, Subst(line.a, e))], d, Running)

\* only the innermost if decides
EffectiveInnermost(e) == e.stack = <<>> \/ e.stack[Len(e.stack)]

\* whether the line at the expander's position takes effect
Effective(e) == Active(e.stack)

\* the line at e.pc, by its leading keyword
Process(e, d) ==
    LET line == e.body[e.pc]
    IN  IF line.kw = "if" THEN OnIf(e, line, d)
        ELSE IF line.kw = "else" THEN OnElse(e, d)
        ELSE IF line.kw = "endif" THEN OnEndif(e, d)
        ELSE IF line.kw = "#" \/ ~Effective(e) THEN Skip(e, d)
        ELSE IF line.kw = "echo" THEN OnEcho(e, line, d)
        ELSE IF line.kw = "exit" THEN OnExit(e, line, d)
        ELSE IF line.kw = "return" THEN OnReturn(e, d)
        ELSE IF line.kw = "var" THEN OnVar(e, line, d)
        ELSE OnSql(e, line, d)

\* an end of body that lets an open if pass
AtEndLenient(e, d) == Returned(e, d)

\* an end of body that drops the generated SQL as exit does
AtEndDrops(e, d) ==
    IF e.stack # <<>> THEN Malformed(e, d) ELSE Returned([e EXCEPT !.sql = <<>>], d)

\* the end of the body is an implicit return; an if still open is an error
AtEnd(e, d) == IF e.stack # <<>> THEN Malformed(e, d) ELSE Returned(e, d)

Deliver(out) ==
    /\ exp' = out.exp
    /\ display' = out.display
    /\ lastCmd' = out.cmd
    /\ UNCHANGED <<registry, typed, defs, txnVars, other, scan>>

ExpandStep ==
    /\ Expanding
    /\ exp.pc < Len(exp.body)
    /\ Deliver(Process([exp EXCEPT !.pc = @ + 1], display))

EndOfBody ==
    /\ Expanding
    /\ exp.pc = Len(exp.body)
    /\ Deliver(AtEnd(exp, display))

\* a define starts the registry afresh with the one macro
DefineAfresh(name, body) ==
    /\ registry' = [k \in {Fold(name)} |-> body]
    /\ defs' = Append(defs, <<name, body>>)
    /\ lastCmd' = Cmd("DEFINE")
    /\ UNCHANGED <<exp, display, typed, txnVars, other, scan>>

Define(name, body) ==
    /\ registry' = [k \in DOMAIN registry \cup {Fold(name)} |->
                        IF k = Fold(name) THEN body ELSE registry[k]]
    /\ defs' = Append(defs, <<name, body>>)
    /\ lastCmd' = Cmd("DEFINE")
    /\ UNCHANGED <<exp, display, typed, txnVars, other, scan>>

Invoke(name, tokens) ==
    /\ Fold(name) \in DOMAIN registry
    /\ exp' = Expansion(name, tokens)
    /\ display' = <<>>
    /\ lastCmd' = Running
    /\ UNCHANGED <<registry, typed, defs, txnVars, other, scan>>

(* Bodies and token lists *)

EchoA == Echo(<<Lit("A")>>)
EchoB == Echo(<<Lit("B")>>)
EchoArgc == Echo(<<Argc>>)
SqlS == Sql(<<Lit("SELECT")>>)
ExitMsg == Exit(<<Lit("msg")>>)
IfNoArgs == If(<<Argc>>, "=", <<Lit("0")>>)
IfArgs == If(<<Argc>>, "<>", <<Lit("0")>>)

LineKinds == {EchoA, EchoArgc, SqlS, ExitMsg, Return, IfNoArgs, Else, Endif}

GeneratedBodies == UNION {[1..k -> LineKinds] : k \in 0..MaxLines}

BranchLines == {EchoA, SqlS, ExitMsg, Return}

\* line / if / line / else / line / endif / line
BranchBodies ==
    {<<s, c, x, Else, y, Endif, z>> :
        s \in {EchoB, SqlS}, c \in {IfNoArgs, IfArgs},
        x \in BranchLines, y \in BranchLines, z \in {EchoB, SqlS}}

\* if / if / line / else / line / endif / else / line / endif
NestedBodies ==
    {<<c, k, x, Else, y, Endif, Else, z, Endif>> :
        c \in {IfNoArgs, IfArgs}, k \in {IfNoArgs, IfArgs},
        x \in {EchoA, SqlS}, y \in {EchoB, ExitMsg}, z \in {EchoA, Return}}

\* n nested if blocks around one echo
DeepBody(n) ==
    [i \in 1..(2 * n + 1) |->
        IF i <= n THEN IfNoArgs ELSE IF i = n + 1 THEN EchoA ELSE Endif]

\* nesting at the limit and one beyond it
DeepBodies == {DeepBody(MaxDepth), DeepBody(MaxDepth + 1)}

\* %%sql define showexit (with exit)
ShowExit ==
    <<Echo(<<Lit("This message gets shown")>>),
      Sql(<<Lit("SELECT * FROM EMPLOYEE FETCH FIRST ROW ONLY")>>),
      Exit(<<Lit("I just exited the macro")>>),
      Echo(<<Lit("This message does not get shown")>>)>>

\* %%sql define showexit (with return)
ShowReturn == [ShowExit EXCEPT ![3] = Return]

\* if {argc} = 0 / exit / else / echo {argc} / endif
ExitOrCount == <<IfNoArgs, Exit(<<>>), Else, EchoArgc, Endif>>

\* %%sql define showif
ShowIf ==
    <<IfNoArgs,
      Exit(<<Lit("No parameters supplied")>>),
      Else,
      If(<<Argc>>, "=", <<Lit("\"1\"")>>),
      Echo(<<Lit("One parameter was supplied")>>),
      Else,
      Echo(<<Lit("More than one parameter was supplied:"), Argc>>),
      Endif,
      Endif>>

\* %%sql define hello
Hello == <<Comment, Comment, Comment, Echo(<<Lit("Hello"), Lit("World")>>)>>

\* %%sql define runit
RunIt ==
    <<Var("hello", <<Lit("This is a long string without quotes")>>),
      Var("hello2", <<Lit("'This is a long string with quotes'")>>),
      Echo(<<Named("hello"), Lit("<br>"), Named("hello2")>>)>>

\* a macro that shows a variable it does not set and its first token
ShowScope == <<Echo(<<Named("hello"), Pos(1)>>)>>

\* a macro whose SQL begins with the name emptable
SelfSql == <<Sql(<<Lit("emptable")>>)>>

\* %%sql define showvar
ShowVarTokens ==
    <<Echo(<<Lit("Token(1)="), Pos(1), Lit("<br>Token(2)="), Pos(2), Lit("<br>All="), Rest(0),
             Lit("<br>After Token 0="), Rest(1), Lit("<br>Count="), Argc>>)>>

\* %%sql define showvar, as redefined to show the count
ShowVar == <<Echo(<<Lit("The number of unnamed parameters is"), Argc>>)>>

\* a macro that refers to a token, a variable and a tail that may not exist,
\* each followed by more text and more lines
ShowMissing ==
    <<Echo(<<Pos(2), Lit("after")>>),
      Echo(<<Named("hello"), Lit("next")>>),
      Echo(<<Lit("["), Rest(2), Lit("]")>>),
      SqlS>>

\* %%sql define emptable, with a column
EmpTableColumn == <<Sql(<<Lit("SELECT"), Pos(1), Lit("FROM"), Lit("EMPLOYEE")>>)>>

\* %%sql define emptable, with everything after the macro name
EmpTableTail == <<Sql(<<Lit("SELECT"), Lit("*"), Lit("FROM"), Lit("EMPLOYEE"), Rest(1)>>)>>

\* a macro whose SQL names a variable it does not set, and its tokens
SqlScope == <<Sql(<<Lit("SELECT"), Named("hello"), Pos(1)>>), Sql(<<Rest(1)>>)>>

\* a comment, a var, an echo and three lines of SQL with references
Mixed ==
    <<Comment,
      Var("hello", <<Pos(1)>>),
      Sql(<<Lit("SELECT"), Pos(1)>>),
      Echo(<<Lit("A")>>),
      Sql(<<Lit("FROM"), Lit("EMPLOYEE")>>),
      Sql(<<Lit("WHERE"), Named("hello"), Lit("="), Pos(2)>>)>>

\* a variable that is set, shown, set again in one branch of an if, and shown
\* again with a variable that the other branch sets
VarTwice ==
    <<Var("hello", <<Lit("first")>>),
      Echo(<<Named("hello")>>),
      IfNoArgs,
      Var("hello", <<Lit("'no tokens'")>>),
      Else,
      Var("hello2", <<Pos(1), Lit("'quoted'")>>),
      Endif,
      Echo(<<Named("hello"), Named("hello2")>>),
      Sql(<<Lit("SELECT"), Named("hello")>>)>>

NotebookBodies == {ShowExit, ShowReturn, ExitOrCount, ShowIf, Hello, RunIt}

Bodies ==
    GeneratedBodies \cup BranchBodies \cup NestedBodies \cup DeepBodies \cup NotebookBodies
        \cup {Mixed, VarTwice}

TokenLists == UNION {[1..k -> {"hello"}] : k \in 0..MaxTokens}

----------------------------------------------------------------------------
(* The Tokenizer. A line is a sequence of characters, a token the sequence *)
(* of its characters.                                                      *)

MaxChars == 4       \* characters of a generated line

Blank == " "
QuoteChars == {"'", "\""}
Chars == {"a", Blank, "(", ","} \cup QuoteChars

\* LIST 1234 "Here's a string" AbCD-12 'String'
ListLine ==
    <<"L", "I", "S", "T", " ", "1", "2", "3", "4", " ", "\"", "H", "e", "r",
      "e", "'", "s", " ", "a", " ", "s", "t", "r", "i", "n", "g", "\"", " ",
      "A", "b", "C", "D", "-", "1", "2", " ", "'", "S", "t", "r", "i", "n",
      "g", "'">>

\* LIST ("this is","parameter") FROM EMPLOYEE
ListParens ==
    <<"L", "I", "S", "T", " ", "(", "\"", "t", "h", "i", "s", " ", "i", "s",
      "\"", ",", "\"", "p", "a", "r", "a", "m", "e", "t", "e", "r", "\"",
      ")", " ", "F", "R", "O", "M", " ", "E", "M", "P", "L", "O", "Y", "E",
      "E">>

Lines == UNION {[1..k -> Chars] : k \in 0..MaxChars} \cup {ListLine, ListParens}

RECURSIVE SplitAtBlanks(_, _, _)
\* a tokenizer that splits at every blank
SplitAtBlanks(line, arg, args) ==
    IF line = <<>> THEN (IF arg = <<>> THEN args ELSE Append(args, arg))
    ELSE IF Head(line) = Blank
    THEN SplitAtBlanks(Tail(line), <<>>, IF arg = <<>> THEN args ELSE Append(args, arg))
    ELSE SplitAtBlanks(Tail(line), Append(arg, Head(line)), args)

tokenizeBlanks(line) == SplitAtBlanks(line, <<>>, <<>>)

RECURSIVE Scan(_, _, _, _)
\* the rest of the line, the quote that is open, the token under way and the
\* tokens made so far
Scan(line, quote, arg, args) ==
    IF line = <<>> THEN (IF arg = <<>> THEN args ELSE Append(args, arg))
    ELSE LET ch == Head(line)
         IN  IF quote # ""
             THEN Scan(Tail(line), IF ch = quote THEN "" ELSE quote, Append(arg, ch), args)
             ELSE IF ch \in QuoteChars
             THEN Scan(Tail(line), ch, Append(arg, ch), args)
             ELSE IF ch = Blank
             THEN Scan(Tail(line), "", <<>>, IF arg = <<>> THEN args ELSE Append(args, arg))
             ELSE Scan(Tail(line), "", Append(arg, ch), args)

\* the text is split by blanks; quotes keep the blanks inside a string from
\* splitting it and are part of the token
tokenize(line) == Scan(line, "", <<>>, <<>>)

Tokenize(line) ==
    /\ scan' = [line |-> line, tokens |-> tokenize(line), done |-> TRUE]
    /\ UNCHANGED <<txnVars, macroVars, lastCmd, other>>

----------------------------------------------------------------------------
(* The dispatcher: the leading keyword of a command decides what handles it *)

\* the dispatcher has accepted a command and not yet classified it
Pending == lastCmd.kind = "PENDING"

Receive(word) ==
    /\ typed' = word
    /\ lastCmd' = Cmd("PENDING")
    /\ UNCHANGED <<registry, exp, display, defs, txnVars, other, scan>>

\* literal SQL goes to the driver unchanged
ForwardSql(word) ==
    /\ lastCmd' = [Cmd("SQL") EXCEPT !.sql = << <<word>> >>, !.driver = <<"sql">>]
    /\ UNCHANGED <<txnVars, macroVars, other, scan>>

----------------------------------------------------------------------------
(* A second notebook, with a connection of its own *)

OtherSession ==
    [autocommit |-> TRUE, handles |-> 0, live |-> {}, registry |-> EmptyRegistry,
     odd |-> FALSE]

----------------------------------------------------------------------------

(* The session after the notebook has loaded the extension and connected *)
Init ==
    /\ autocommit = TRUE
    /\ stmts = <<>>
    /\ live = {}
    /\ driverRuns = <<>>
    /\ okExecutes = <<>>
    /\ committed = {}
    /\ rolledBack = {}
    /\ lastCmd = NoCmd
    /\ registry = EmptyRegistry
    /\ exp = IdleExpander
    /\ display = <<>>
    /\ typed = ""
    /\ defs = <<>>
    /\ pending = {}
    /\ durable = {}
    /\ other = OtherSession
    /\ scan = [line |-> <<>>, tokens |-> <<>>, done |-> FALSE]

(* Sessions that prepare statements and follow their handles through the   *)
(* transaction directives.                                                 *)
NextTxn ==
    \/ ~Expanding /\ \E arg \in AutocommitArgs : Autocommit(arg)
    \/ ~Expanding /\ \E opt \in CommitOptions : Commit(opt)
    \/ ~Expanding /\ Rollback
    \/ ~Expanding /\ Len(stmts) < MaxHandles /\ \E src \in SessionTexts : Prepare(src)
    \/ ~Expanding /\ \E h \in 1..(MaxHandles + 1), args \in SessionUsing,
                         drv \in DriverOutcomes : Execute(h, args, drv)

SpecTxn == Init /\ [][NextTxn]_vars

(* Sessions that prepare one statement, of any text, and execute it once   *)
(* with any USING list.                                                    *)
NextBind ==
    \/ ~Expanding /\ stmts = <<>> /\ \E src \in PrepareTexts : Prepare(src)
    \/ ~Expanding /\ lastCmd.kind # "EXECUTE"
           /\ \E args \in UsingLists, drv \in DriverOutcomes : Execute(1, args, drv)

SpecBind == Init /\ [][NextBind]_vars

(* Sessions that define one macro, of any body, and invoke it with any     *)
(* tokens; a command is accepted when the one before it has finished.      *)
NextExpand ==
    \/ ~Expanding /\ registry = EmptyRegistry
           /\ \E name \in MacroNames, body \in Bodies : Define(name, body)
    \/ ~Expanding /\ \E name \in MacroNames, tokens \in TokenLists : Invoke(name, tokens)
    \/ ExpandStep
    \/ EndOfBody

SpecExpand == Init /\ [][NextExpand]_vars

(* Sessions in which every command passes through the dispatcher; each     *)
(* macro name is defined once.                                             *)
DispatchWords ==
    {"commit", "COMMIT", "emptable", "EMPTABLE", "AUTOCOMMIT", "ROLLBACK",
     "PREPARE", "EXECUTE", "select"}

DispatchNames == {"commit", "EMPTABLE"}

DispatchBodies ==
    {<<SqlS>>, <<Sql(<<Lit("emptable")>>)>>, <<Sql(<<Lit("CALL")>>)>>, <<SqlS, Endif>>}

DispatchUsing == {<<Scalar>>, <<Container(2)>>}

DispatchTokens == {<<>>, <<"hello">>}

NextDispatch ==
    \/ ~Expanding /\ ~Pending /\ \E word \in DispatchWords : Receive(word)
    \/ ~Expanding /\ ~Pending
           /\ \E name \in DispatchNames, body \in DispatchBodies :
                 Fold(name) \notin DOMAIN registry /\ Define(name, body)
    \/ Pending /\ Classify(typed) = "MACRO"
           /\ \E tokens \in DispatchTokens : Invoke(typed, tokens)
    \/ Pending /\ Classify(typed) = "AUTOCOMMIT" /\ \E arg \in {"ON", "OFF"} : Autocommit(arg)
    \/ Pending /\ Classify(typed) = "COMMIT" /\ Commit("")
    \/ Pending /\ Classify(typed) = "ROLLBACK" /\ Rollback
    \/ Pending /\ Classify(typed) = "PREPARE" /\ stmts = <<>> /\ Prepare(CastMarker)
    \/ Pending /\ Classify(typed) = "EXECUTE"
           /\ \E args \in DispatchUsing : Execute(1, args, "ok")
    \/ Pending /\ Classify(typed) = "SQL" /\ ForwardSql(typed)
    \/ ExpandStep
    \/ EndOfBody

SpecDispatch == Init /\ [][NextDispatch]_vars

(* Sessions that define and redefine macros under names in either letter   *)
(* case and call them, next to a PREPARE and AUTOCOMMIT.                    *)
MaxDefines == 2     \* define commands per session

RegistryNames == {"emptable", "EMPTABLE", "hello"}

RegistryBodies == {Hello, RunIt, ShowScope, SelfSql}

RegistryTokens == {<<>>, <<"there">>}

NextRegistry ==
    \/ ~Expanding /\ Len(defs) < MaxDefines
           /\ \E name \in RegistryNames, body \in RegistryBodies : Define(name, body)
    \/ ~Expanding /\ \E name \in RegistryNames, tokens \in RegistryTokens :
                         Invoke(name, tokens)
    \/ ExpandStep
    \/ EndOfBody
    \/ ~Expanding /\ \E arg \in {"ON", "OFF"} : Autocommit(arg)
    \/ ~Expanding /\ stmts = <<>> /\ Prepare(CastMarker)

SpecRegistry == Init /\ [][NextRegistry]_vars

(* Sessions that define one macro of the notebook and call it with the      *)
(* token lists of the notebook.                                            *)
ArgcNames == {"showvar", "SHOWVAR", "emptable"}

ArgcBodies ==
    {ShowVar, ShowVarTokens, ShowIf, ExitOrCount, ShowMissing, EmpTableColumn, EmpTableTail}

ArgcTokens ==
    {<<>>, <<"hello">>, <<"Hello", "There">>, <<"hello", "there", "everyone">>,
     <<"lastname">>, <<"where", "empno", "=", "'000010'">>}

NextArgc ==
    \/ ~Expanding /\ registry = EmptyRegistry
           /\ \E name \in ArgcNames, body \in ArgcBodies : Define(name, body)
    \/ ~Expanding /\ \E name \in ArgcNames, tokens \in ArgcTokens : Invoke(name, tokens)
    \/ ExpandStep
    \/ EndOfBody

SpecArgc == Init /\ [][NextArgc]_vars

(* Sessions that call the same macros again and again, with defines, other  *)
(* macros, AUTOCOMMIT and PREPARE in between.                               *)
ReplayNames == {"emptable", "hello"}

ReplayBodies == {EmpTableTail, SqlScope, RunIt}

ReplayTokens == {<<>>, <<"lastname">>}

NextReplay ==
    \/ ~Expanding /\ Len(defs) < MaxDefines
           /\ \E name \in ReplayNames, body \in ReplayBodies : Define(name, body)
    \/ ~Expanding /\ \E name \in ReplayNames, tokens \in ReplayTokens : Invoke(name, tokens)
    \/ ExpandStep
    \/ EndOfBody
    \/ ~Expanding /\ \E arg \in {"ON", "OFF"} : Autocommit(arg)
    \/ ~Expanding /\ stmts = <<>> /\ Prepare(CastMarker)

SpecReplay == Init /\ [][NextReplay]_vars

(* Sessions with every kind of command, where the driver may fail; literal *)
(* SQL is a block of one statement.                                        *)
SessionProcedures == {ShowDept, OneParm}

SessionBodies == {<<SqlS>>, <<SqlS, Endif>>}

NextSession ==
    \/ ~Expanding /\ \E arg \in {"ON", "OFF", "MAYBE"} : Autocommit(arg)
    \/ ~Expanding /\ Commit("")
    \/ ~Expanding /\ Rollback
    \/ ~Expanding /\ stmts = <<>> /\ Prepare(CastMarker)
    \/ ~Expanding /\ \E args \in DispatchUsing, drv \in DriverOutcomes : Execute(1, args, drv)
    \/ ~Expanding /\ \E proc \in SessionProcedures, raw \in BOOLEAN, drv \in DriverOutcomes :
                         \E args \in CallArgs(proc) : Call(proc, args, raw, drv)
    \/ ~Expanding /\ \E failAt \in 0..1, drv \in DriverOutcomes :
                         RunBlock(Block(1), failAt, drv, FALSE)
    \/ ~Expanding /\ registry = EmptyRegistry
           /\ \E body \in SessionBodies : Define("emptable", body)
    \/ ~Expanding /\ Invoke("emptable", <<>>)
    \/ ExpandStep
    \/ EndOfBody

(* The commands of a second notebook. It runs the same interpreter in a     *)
(* kernel of its own, so its macros, its autocommit setting and its         *)
(* prepared statements are its own; odd tells whether the number of         *)
(* commands it has issued is odd.                                           *)
OtherDefineShared(name, body) ==
    /\ registry' = [k \in DOMAIN registry \cup {Fold(name)} |->
                        IF k = Fold(name) THEN body ELSE registry[k]]
    /\ other' = [other EXCEPT !.registry = registry', !.odd = ~other.odd]
    /\ UNCHANGED <<exp, display, typed, defs, txnVars, lastCmd, scan>>

OtherDefine(name, body) ==
    /\ other' = [other EXCEPT
                    !.registry = [k \in DOMAIN other.registry \cup {Fold(name)} |->
                                     IF k = Fold(name) THEN body ELSE other.registry[k]],
                    !.odd = ~other.odd]
    /\ UNCHANGED <<macroVars, txnVars, lastCmd, scan>>

OtherAutocommit(arg) ==
    /\ other' = [other EXCEPT
                    !.autocommit = IF Upper(arg) \in {"ON", "OFF"} THEN Upper(arg) = "ON"
                                   ELSE other.autocommit,
                    !.odd = ~other.odd]
    /\ UNCHANGED <<macroVars, txnVars, lastCmd, scan>>

OtherCommit(opt) ==
    /\ other' = [other EXCEPT !.live = IF opt = "HOLD" THEN other.live ELSE {},
                              !.odd = ~other.odd]
    /\ UNCHANGED <<macroVars, txnVars, lastCmd, scan>>

OtherRollback ==
    /\ other' = [other EXCEPT !.live = {}, !.odd = ~other.odd]
    /\ UNCHANGED <<macroVars, txnVars, lastCmd, scan>>

OtherPrepare ==
    /\ other' = [other EXCEPT !.handles = other.handles + 1,
                              !.live = other.live \cup {other.handles + 1},
                              !.odd = ~other.odd]
    /\ UNCHANGED <<macroVars, txnVars, lastCmd, scan>>

(* Two notebooks at work side by side, their commands interleaved.          *)
TwoBodies == {<<SqlS>>, ShowVar}

NextTwo ==
    \/ Len(defs) < MaxDefines /\ \E body \in TwoBodies : Define("emptable", body)
    \/ \E arg \in {"ON", "OFF"} : Autocommit(arg)
    \/ Commit("")
    \/ Rollback
    \/ Len(stmts) < MaxHandles /\ Prepare(CastMarker)
    \/ \E body \in TwoBodies : OtherDefine("emptable", body)
    \/ \E arg \in {"ON", "OFF"} : OtherAutocommit(arg)
    \/ \E opt \in CommitOptions : OtherCommit(opt)
    \/ OtherRollback
    \/ other.handles < MaxHandles /\ OtherPrepare

SpecTwo == Init /\ [][NextTwo]_vars

(* Sessions that define one macro and invoke it; an expansion that has      *)
(* started runs on, line after line, until it ends.                         *)
RunBodies ==
    NotebookBodies \cup NestedBodies \cup BranchBodies
        \cup {DeepBody(MaxDepth + 1), <<SqlS, Endif>>, <<IfNoArgs, EchoA>>}

RunTokens == {<<>>, <<"hello">>, <<"hello", "hello">>}

NextRun ==
    \/ ~Expanding /\ registry = EmptyRegistry
           /\ \E body \in RunBodies : Define("showif", body)
    \/ ~Expanding /\ \E tokens \in RunTokens : Invoke("showif", tokens)
    \/ ExpandStep
    \/ EndOfBody

SpecRun == Init /\ [][NextRun]_vars /\ WF_vars(ExpandStep) /\ WF_vars(EndOfBody)

(* Sessions that call a macro with tokens that are written like references. *)
BraceBodies == {Mixed, EmpTableColumn, EmpTableTail, ShowScope, RunIt, VarTwice}

BraceTokens ==
    {<<>>, <<"lastname">>, <<"{2}", "lastname">>, <<"{1}">>, <<"{hello}", "{1}">>}

NextBraces ==
    \/ ~Expanding /\ registry = EmptyRegistry
           /\ \E body \in BraceBodies : Define("emptable", body)
    \/ ~Expanding /\ \E tokens \in BraceTokens : Invoke("emptable", tokens)
    \/ ExpandStep
    \/ EndOfBody

SpecBraces == Init /\ [][NextBraces]_vars

(* A line given to the Tokenizer. *)
NextTokens == ~scan.done /\ \E line \in Lines : Tokenize(line)

SpecTokens == Init /\ [][NextTokens]_vars

(* Sessions that call the stored procedures, with and without -r, next to   *)
(* AUTOCOMMIT and a PREPARE.                                               *)
Procedures == {ShowEmpAll, ShowEmp, ShowDept, OneParm, DeptCount, Silent, TwoCursors}

NextCall ==
    \/ \E proc \in Procedures, raw \in BOOLEAN, drv \in DriverOutcomes :
           \E args \in CallArgs(proc) : Call(proc, args, raw, drv)
    \/ \E arg \in {"ON", "OFF"} : Autocommit(arg)
    \/ stmts = <<>> /\ Prepare(CastMarker)

SpecCall == Init /\ [][NextCall]_vars

(* Sessions that run blocks of statements between transaction directives.  *)
NextBlock ==
    \/ \E arg \in {"ON", "OFF"} : Autocommit(arg)
    \/ Commit("")
    \/ Rollback
    \/ \E block \in Blocks, failAt \in 0..MaxBlock, drv \in DriverOutcomes,
           goesOn \in BOOLEAN : RunBlock(block, failAt, drv, goesOn)

SpecBlock == Init /\ [][NextBlock]_vars

SpecSession == Init /\ [][NextSession]_vars

----------------------------------------------------------------------------
(* Properties of prepared statements and transactions *)

\* C1: once a COMMIT or COMMIT WORK (without HOLD) has been issued after a
\* PREPARE, every later EXECUTE of the handle that PREPARE returned fails with
\* UnknownStatementHandle.
C1_CommitInvalidatesHandles ==
    lastCmd.kind = "EXECUTE" /\ lastCmd.handle \in committed
        => lastCmd.result = "UnknownStatementHandle"

\* an EXECUTE of a handle committed away, while a handle prepared later is live
C1_Witness ==
    /\ lastCmd.kind = "EXECUTE"
    /\ lastCmd.handle \in committed
    /\ live # {}
    /\ lastCmd.result = "UnknownStatementHandle"

\* C2: COMMIT HOLD issues a commit to the driver and leaves the set of live
\* handles unchanged; an EXECUTE that follows it, of a handle that was live
\* before it, with the right number of arguments, succeeds unless the driver fails.
C2_CommitHoldKeepsHandles ==
    [][ /\ lastCmd'.kind = "COMMIT HOLD"
            => live' = live /\ lastCmd'.driver = <<"commit">>
        /\ ( /\ lastCmd.kind = "COMMIT HOLD"
             /\ lastCmd'.kind = "EXECUTE"
             /\ lastCmd'.handle \in lastCmd.liveBefore
             /\ lastCmd'.result # "DriverError" )
            => lastCmd'.result \in {"ok", "ParameterCountMismatch"}
               /\ (lastCmd'.result = "ok"
                     <=> Len(Flatten(lastCmd'.using))
                           = stmts[lastCmd'.handle].parameterCount)
      ]_vars

\* a COMMIT HOLD with two handles live before and after it
C2_Witness ==
    /\ lastCmd.kind = "COMMIT HOLD"
    /\ Cardinality(lastCmd.liveBefore) = 2
    /\ live = lastCmd.liveBefore

\* C3: after a ROLLBACK, EXECUTE of any handle prepared before it fails with
\* UnknownStatementHandle, whatever the autocommit setting; the ROLLBACK itself
\* leaves no handle live.
C3_RollbackInvalidatesHandles ==
    /\ lastCmd.kind = "ROLLBACK" => live = {}
    /\ lastCmd.kind = "EXECUTE" /\ lastCmd.handle \in rolledBack
           => lastCmd.result = "UnknownStatementHandle"

\* an EXECUTE of a rolled-back handle with autocommit on
C3_Witness ==
    /\ lastCmd.kind = "EXECUTE"
    /\ lastCmd.handle \in rolledBack
    /\ lastCmd.handle \notin committed
    /\ autocommit
    /\ lastCmd.result = "UnknownStatementHandle"

\* C4: EXECUTE naming a handle that no PREPARE of the session returned fails
\* with UnknownStatementHandle, and the driver executes no statement for it.
C4_UnknownHandle ==
    lastCmd.kind = "EXECUTE" /\ lastCmd.handle \notin Handles
        => /\ lastCmd.result = "UnknownStatementHandle"
           /\ lastCmd.driver = <<>>

\* an EXECUTE of a handle never returned, while another handle is live
C4_Witness ==
    /\ lastCmd.kind = "EXECUTE"
    /\ lastCmd.handle \notin Handles
    /\ live # {}
    /\ lastCmd.result = "UnknownStatementHandle"

RECURSIVE FlatCount(_)
\* each scalar counts 1, each container its number of elements
FlatCount(args) ==
    IF args = <<>> THEN 0
    ELSE (IF Head(args).kind = "scalar" THEN 1 ELSE Len(Head(args).vals))
             + FlatCount(Tail(args))

\* C5: EXECUTE on a live handle succeeds only if the flattened USING argument
\* count equals the statement's parameterCount; with any other count it fails
\* with ParameterCountMismatch.
C5_ParameterCount ==
    lastCmd.kind = "EXECUTE" /\ lastCmd.handle \in lastCmd.liveBefore
        => LET n == FlatCount(lastCmd.using)
               m == stmts[lastCmd.handle].parameterCount
           IN  /\ lastCmd.result = "ok" => n = m
               /\ n # m => lastCmd.result = "ParameterCountMismatch"
                           /\ lastCmd.driver = <<>>

\* 9 flattened arguments against a 10-parameter statement
C5_Witness ==
    /\ lastCmd.kind = "EXECUTE"
    /\ lastCmd.handle \in live
    /\ stmts[lastCmd.handle].parameterCount = 10
    /\ FlatCount(lastCmd.using) = 9
    /\ lastCmd.result = "ParameterCountMismatch"

RECURSIVE StarSum(_)
\* the sum of N over the ?*N groups of a text
StarSum(text) ==
    IF text = <<>> THEN 0
    ELSE (IF Head(text).t = "star" THEN Head(text).n ELSE 0) + StarSum(Tail(text))

RECURSIVE BareMarkers(_)
\* the number of bare ? markers of a text
BareMarkers(text) ==
    IF text = <<>> THEN 0
    ELSE (IF Head(text).t = "q" THEN 1 ELSE 0) + BareMarkers(Tail(text))

\* C6: the parameterCount of a PreparedStatement is the sum of N over the ?*N
\* groups of its text plus the number of bare ? markers; no group is left in
\* the prepared text; (?*3,?*7) gives 10 and (?*10) is prepared as ten
\* written-out markers.
C6_ShorthandExpansion ==
    \A h \in Handles :
        /\ stmts[h].parameterCount = StarSum(stmts[h].src) + BareMarkers(stmts[h].src)
        /\ StarSum(stmts[h].text) = 0
        /\ stmts[h].src = StarThreeSeven => stmts[h].parameterCount = 10
        /\ stmts[h].src = StarTen => stmts[h].text = TenMarkers

\* PREPARE INSERT INTO X VALUES (?*3,?*7)
C6_Witness ==
    \E h \in Handles : stmts[h].src = StarThreeSeven /\ stmts[h].parameterCount = 10

\* C7: PREPARE returns a handle and does not execute the statement; the driver
\* has run each prepared statement exactly as often as an EXECUTE of its handle
\* has succeeded.
C7_PrepareNeverExecutes ==
    /\ \A h \in Handles : driverRuns[h] = okExecutes[h]
    /\ lastCmd.kind = "PREPARE"
           => /\ lastCmd.result = "ok"
              /\ lastCmd.handle \in live
              /\ Executions(lastCmd.driver) = 0
              /\ driverRuns[lastCmd.handle] = 0

\* a second PREPARE after the first statement has been executed once
C7_Witness ==
    /\ lastCmd.kind = "PREPARE"
    /\ lastCmd.handle = 2
    /\ driverRuns[1] = 1
    /\ okExecutes[1] = 1
    /\ driverRuns[2] = 0

----------------------------------------------------------------------------
(* Properties of macro expansion *)

\* the nesting level, counted from the if at line j, after line k
Level(body, j, k) ==
    1 + Cardinality({m \in (j + 1)..k : body[m].kw = "if"})
      - Cardinality({m \in (j + 1)..k : body[m].kw = "endif"})

\* the if at line j is still open at line i
Encloses(body, j, i) ==
    /\ j < i
    /\ body[j].kw = "if"
    /\ \A k \in (j + 1)..(i - 1) : Level(body, j, k) >= 1

\* the else lines of the if at line j that come before line i
ElsesBefore(body, j, i) ==
    {k \in (j + 1)..(i - 1) : body[k].kw = "else" /\ Level(body, j, k) = 1}

\* line i lies in the branch of the if at line j that the condition selects
InChosenBranch(e, j, i) ==
    Holds(e.body[j], e) <=> (Cardinality(ElsesBefore(e.body, j, i)) % 2 = 0)

\* line i of the body lies in the chosen branch of every if that encloses it
InActiveBranch(e, i) ==
    \A j \in 1..(i - 1) : Encloses(e.body, j, i) => InChosenBranch(e, j, i)

RECURSIVE SqlBetween(_, _, _)
\* the substituted SQL lines among lines i..k that lie in active branches
SqlBetween(e, i, k) ==
    IF i > k THEN <<>>
    ELSE (IF e.body[i].kw = "sql" /\ InActiveBranch(e, i)
          THEN <<Subst(e.body[i].a, e)>> ELSE <<>>) \o SqlBetween(e, i + 1, k)

\* the messages the active echo lines among lines 1..k display
EchoesBefore(e, k) ==
    Cardinality({i \in 1..k : e.body[i].kw = "echo" /\ InActiveBranch(e, i)})

EchoMsg(s) == [kind |-> "echo", text |-> <<s>>]
ExitMsgOf(s) == [kind |-> "exit", text |-> <<s>>]

\* C8: when expansion reaches an exit line in an active branch the expander
\* ends in EXITED: the SQL accumulated so far is discarded, nothing goes to the
\* driver, no later body line is processed, and what is displayed is the
\* messages echoed before the exit followed by the exit message.
C8_ExitDiscardsSql ==
    exp.state = "EXITED"
        => /\ exp.body[exp.pc].kw = "exit"
           /\ InActiveBranch(exp, exp.pc)
           /\ exp.sql = <<>>
           /\ lastCmd.kind = "MACRO" /\ lastCmd.result = "exited"
           /\ lastCmd.sql = <<>> /\ lastCmd.driver = <<>>
           /\ exp.ran \subseteq 1..exp.pc
           /\ ~ENABLED ExpandStep /\ ~ENABLED EndOfBody
           /\ LET shown == IF exp.body[exp.pc].a = <<>> THEN 0 ELSE 1
              IN  /\ Len(display) = EchoesBefore(exp, exp.pc) + shown
                  /\ \A i \in 1..(Len(display) - shown) : display[i].kind = "echo"
                  /\ shown = 1 =>
                        display[Len(display)]
                            = [kind |-> "exit", text |-> Subst(exp.body[exp.pc].a, exp)]
           /\ exp.body = ShowExit =>
                 display = <<EchoMsg("This message gets shown"),
                             ExitMsgOf("I just exited the macro")>>

\* showexit has exited: SQL had been generated, and an echo follows the exit
C8_Witness ==
    /\ exp.state = "EXITED"
    /\ exp.body = ShowExit
    /\ exp.pc = 3
    /\ Len(display) = 2

\* C9: when expansion reaches a return line in an active branch the expander
\* ends in RETURNED: exactly the SQL of the active lines before the return is
\* handed on for execution, and no later body line is processed.
C9_ReturnHandsOnSql ==
    exp.state = "RETURNED" /\ exp.pc \in exp.ran /\ exp.body[exp.pc].kw = "return"
        => /\ InActiveBranch(exp, exp.pc)
           /\ lastCmd.kind = "MACRO" /\ lastCmd.result = "ok"
           /\ lastCmd.sql = SqlBetween(exp, 1, exp.pc)
           /\ lastCmd.driver = (IF lastCmd.sql = <<>> THEN <<>> ELSE <<"sql">>)
           /\ exp.ran \subseteq 1..exp.pc
           /\ ~ENABLED ExpandStep /\ ~ENABLED EndOfBody
           /\ Len(display) = EchoesBefore(exp, exp.pc)
           /\ \A v \in VarNames :
                 exp.vars[v].set =>
                     \E i \in 1..exp.pc : exp.body[i].kw = "var" /\ exp.body[i].name = v
           /\ exp.body = ShowReturn =>
                 /\ lastCmd.sql = << <<"SELECT * FROM EMPLOYEE FETCH FIRST ROW ONLY">> >>
                 /\ display = <<EchoMsg("This message gets shown")>>

\* showexit with return has returned: its SQL is handed on, an echo follows the return
C9_Witness ==
    /\ exp.state = "RETURNED"
    /\ exp.body = ShowReturn
    /\ exp.pc = 3
    /\ lastCmd.driver = <<"sql">>

Effects == {"echo", "exit", "return", "var", "sql"}

\* C10: of the branches of an if/else/endif only the one the condition selects
\* is active: the lines that took effect are exactly the processed lines that
\* lie in active branches, so an inactive line emits no SQL, displays nothing,
\* assigns no variable and does not end the macro. The body
\* if {argc} = 0 / exit / else / echo {argc} / endif exits with no token and
\* echoes 2, without exiting, with two tokens.
C10_OneBranchActive ==
    exp.state # "IDLE"
        => /\ \A i \in 1..exp.pc :
                 i \in exp.ran <=> exp.body[i].kw \in Effects /\ InActiveBranch(exp, i)
           /\ exp.ran \subseteq 1..exp.pc
           /\ exp.state \in {"RUNNING", "SUPPRESSED", "RETURNED"}
                 => exp.sql = SqlBetween(exp, 1, exp.pc)
           /\ Len(display) =
                 Cardinality({i \in exp.ran : exp.body[i].kw = "echo"
                                 \/ (exp.body[i].kw = "exit" /\ exp.body[i].a # <<>>)})
           /\ \A v \in VarNames :
                 exp.vars[v].set <=>
                     \E i \in exp.ran : exp.body[i].kw = "var" /\ exp.body[i].name = v
           /\ exp.state \in {"EXITED", "RETURNED"} /\ exp.pc < Len(exp.body)
                 => exp.pc \in exp.ran
           /\ exp.body = ExitOrCount /\ ~Expanding =>
                 /\ exp.tokens = <<>> => exp.state = "EXITED" /\ display = <<>>
                 /\ Len(exp.tokens) = 2 =>
                       exp.state = "RETURNED" /\ display = <<EchoMsg("2")>>

\* the exit of the if branch was skipped and the else branch has echoed 2
C10_Witness ==
    /\ exp.body = ExitOrCount
    /\ Len(exp.tokens) = 2
    /\ exp.state = "RETURNED"
    /\ exp.ran = {4}
    /\ display = <<EchoMsg("2")>>

\* the if blocks opened and not yet closed by the lines before line i
OpenBefore(body, i) ==
    Cardinality({m \in 1..(i - 1) : body[m].kw = "if"})
        - Cardinality({m \in 1..(i - 1) : body[m].kw = "endif"})

\* the else and endif lines that have no open if
Stray(body) ==
    {i \in DOMAIN body : body[i].kw \in {"else", "endif"} /\ OpenBefore(body, i) <= 0}

\* an else or endif with no open if, or an if with no endif by the end of the body
Defective(body) == Stray(body) # {} \/ OpenBefore(body, Len(body) + 1) > 0

MinOf(S) == CHOOSE x \in S : \A y \in S : x <= y

\* where the first structural defect of a defective body lies: the first else
\* or endif with no open if, or else the end of the body
DefectAt(body) == IF Stray(body) # {} THEN MinOf(Stray(body)) ELSE Len(body) + 1

\* the expansion was ended by an exit or return line
EndedByLine(e) ==
    /\ e.state \in {"EXITED", "RETURNED"}
    /\ e.pc \in e.ran
    /\ e.body[e.pc].kw \in {"exit", "return"}

\* the last command was a macro call and its expansion has ended
Finished == lastCmd.kind = "MACRO" /\ exp.state \in {"RETURNED", "EXITED", "ERROR"}

C12_DepthAtMostNine ==
    /\ Len(exp.stack) <= 9
    /\ exp.state # "IDLE" /\ exp.pc >= 1 /\ exp.body[exp.pc].kw = "if"
          /\ Stray(SubSeq(exp.body, 1, exp.pc)) = {}
          => /\ OpenBefore(exp.body, exp.pc) >= 9
                    => exp.state = "ERROR" /\ lastCmd.result = "MalformedMacroBody"
             /\ OpenBefore(exp.body, exp.pc) < 9
                    => Len(exp.stack) = OpenBefore(exp.body, exp.pc) + 1
    /\ Finished /\ exp.body = DeepBody(9)
          => /\ exp.state = "RETURNED" /\ lastCmd.result = "ok"
             /\ display = IF exp.tokens = <<>> THEN <<EchoMsg("A")>> ELSE <<>>
    /\ Finished /\ exp.body = DeepBody(10)
          => /\ exp.state = "ERROR" /\ lastCmd.result = "MalformedMacroBody"
             /\ exp.pc = 10 /\ Len(exp.stack) = 9
             /\ display = <<>> /\ lastCmd.driver = <<>>

\* the 10th nested if is rejected although all nine enclosing branches are inactive
C12_Witness ==
    /\ exp.state = "ERROR"
    /\ exp.body = DeepBody(10)
    /\ exp.tokens # <<>>
    /\ exp.pc = 10
    /\ exp.stack = [i \in 1..9 |-> FALSE]

----------------------------------------------------------------------------
(* Properties of the dispatcher and the registry *)

StaticErrors == {"MalformedMacroBody", "ParameterCountMismatch"}

\* C13: a command that fails with MalformedMacroBody or ParameterCountMismatch
\* has made no driver call, and the registry, the autocommit flag and the live
\* handles are as they were before the command: no step of the command, from
\* its receipt to the error, changes them or calls the driver.
C13_StaticErrorsLeaveNoTrace ==
    [][ /\ lastCmd'.result \in StaticErrors
            => /\ lastCmd'.driver = <<>> /\ lastCmd'.sql = <<>>
               /\ registry' = registry /\ autocommit' = autocommit /\ live' = live
        /\ lastCmd'.kind = "PENDING" \/ lastCmd'.kind = "MACRO"
            => registry' = registry /\ autocommit' = autocommit /\ live' = live
        /\ lastCmd'.kind = "PENDING" \/ lastCmd'.result = "running"
            => lastCmd'.driver = <<>>
        /\ lastCmd'.result \in StaticErrors /\ ~Pending
            => lastCmd.kind = "MACRO" /\ lastCmd.result = "running"
      ]_vars

\* a macro with SQL before a stray endif has failed in a session that has a
\* live handle, two macros and autocommit off
C13_Witness ==
    /\ lastCmd.result = "MalformedMacroBody"
    /\ exp.body = <<SqlS, Endif>>
    /\ live = {1}
    /\ ~autocommit
    /\ Cardinality(DOMAIN registry) = 2

\* the commands the dispatcher has classified and routed
Routed == lastCmd.kind \notin {"NONE", "PENDING", "DEFINE"}

\* some define so far named the word, in whatever letter case
Registered(word) == \E i \in DOMAIN defs : Upper(defs[i][1]) = Upper(word)

\* C14 as stated: a command whose leading keyword is one of the six reserved
\* keywords is handled as that directive and never handed to the MacroExpander,
\* even when a macro of that name is registered.
C14_ReservedBeforeMacro ==
    Routed /\ Upper(typed) \in ReservedKeywords => lastCmd.kind = Upper(typed)

\* C14 (amended): the registry is consulted first: a command whose leading
\* keyword names a registered macro, in any letter case, is handed to the
\* MacroExpander, also when the keyword is a reserved one; otherwise a reserved
\* keyword selects its directive, and any other command is literal SQL.
C14_MacroBeforeReserved ==
    /\ Routed =>
          /\ lastCmd.kind = "MACRO" <=> Registered(typed)
          /\ lastCmd.kind = "MACRO" => Upper(exp.called) = Upper(typed)
          /\ ~Registered(typed) /\ Upper(typed) \in ReservedKeywords
                => lastCmd.kind = Upper(typed)
          /\ ~Registered(typed) /\ Upper(typed) \notin ReservedKeywords
                => lastCmd.kind = "SQL" /\ lastCmd.sql = << <<typed>> >>
    /\ \A w \in ReservedKeywords \cup {"select"} :
          Classify(w) = IF Registered(w) THEN "MACRO"
                        ELSE IF w \in ReservedKeywords THEN w ELSE "SQL"

\* COMMIT was typed while a macro named commit is registered: the macro ran
C14_Witness ==
    /\ typed = "COMMIT"
    /\ lastCmd.kind = "MACRO"
    /\ exp.state = "RETURNED"
    /\ exp.called = "COMMIT"
    /\ "commit" \in DOMAIN registry

\* C15: a command triggers at most one macro expansion. An expansion starts
\* only when the dispatcher routes a received command; every step of it stays
\* in the same body with the same tokens and moves one line on or finishes, so
\* it ends within the length of the body; and the SQL it generated goes to the
\* driver as literal SQL, whatever its first word is.
C15_OneExpansionPerCommand ==
    [][ /\ Expanding
            => /\ exp'.called = exp.called
               /\ exp'.body = exp.body
               /\ exp'.tokens = exp.tokens
               /\ exp'.pc <= Len(exp.body)
               /\ \/ exp'.pc = exp.pc + 1
                  \/ exp'.pc = exp.pc /\ ~Expanding'
        /\ exp'.state = "RUNNING" /\ exp'.pc = 0 /\ exp' # exp
            => Pending /\ Upper(exp'.called) = Upper(typed)
        /\ exp'.state = "RETURNED" /\ exp.state # "RETURNED"
            => /\ Expanding
               /\ lastCmd'.kind = "MACRO"
               /\ exp'.sql = exp.sql
               /\ lastCmd'.sql = exp'.sql
               /\ lastCmd'.driver = IF exp'.sql = <<>> THEN <<>> ELSE <<"sql">>
      ]_vars

\* a macro whose generated SQL begins with its own name has returned: the text
\* went to the driver as SQL
C15_Witness ==
    /\ exp.state = "RETURNED"
    /\ Fold(exp.called) = "emptable"
    /\ lastCmd.sql = << <<"emptable">> >>
    /\ lastCmd.driver = <<"sql">>
    /\ "emptable" \in DOMAIN registry

\* the body names a registered macro: in the text of a line, as a variable
\* it sets, or as a variable it reads
References(body) ==
    \E i \in DOMAIN body :
        \/ body[i].kw = "var" /\ Fold(body[i].name) \in DOMAIN registry
        \/ \E j \in DOMAIN body[i].a :
              /\ body[i].a[j].p \in {"lit", "name"}
              /\ Fold(body[i].a[j].s) \in DOMAIN registry

\* C16 as stated: a macro body that textually references a name that is also a
\* registered macro is rejected with RecursiveMacroInvocation.
C16_ReferenceRejected ==
    Finished /\ References(exp.body) => lastCmd.result = "RecursiveMacroInvocation"

\* C16 (amended): a macro body that textually references a name that is also a
\* registered macro is not rejected and the name is not expanded: it is
\* ordinary text, echoed, used as a variable or emitted into the generated SQL.
C16_ReferenceIsText ==
    Finished /\ References(exp.body)
        => /\ lastCmd.result = "ok"
           /\ exp.state = "RETURNED"
           /\ exp.body = Hello
                 => /\ display = <<[kind |-> "echo", text |-> <<"Hello", "World">>]>>
                    /\ lastCmd.driver = <<>>
           /\ exp.body = RunIt
                 => display = <<[kind |-> "echo",
                                 text |-> <<"This is a long string without quotes", "<br>",
                                            "'This is a long string with quotes'">>]>>
           /\ exp.body = SelfSql
                 => /\ lastCmd.sql = << <<"emptable">> >>
                    /\ lastCmd.driver = <<"sql">>
                    /\ display = <<>>

\* the macro hello, whose body echoes Hello World, has run and shown its message
C16_Witness ==
    /\ Finished
    /\ References(exp.body)
    /\ exp.state = "RETURNED"
    /\ exp.called = "hello"
    /\ exp.body = Hello
    /\ registry["hello"] = Hello
    /\ display = <<[kind |-> "echo", text |-> <<"Hello", "World">>]>>

\* the define commands so far that named the macro, in whatever letter case
DefinesOf(name) == {i \in DOMAIN defs : Upper(defs[i][1]) = Upper(name)}

MaxOf(S) == CHOOSE x \in S : \A y \in S : x >= y

\* the body given by the most recent define of the name
LastDefined(name) == defs[MaxOf(DefinesOf(name))][2]

\* C17: after any sequence of define commands the registry holds one entry for
\* each name defined so far, names differing only in letter case counting as
\* one, and that entry is the body of the most recent define of the name; a
\* call of the name in any letter case expands that body, so an earlier body
\* of the name is never used again.
C17_LatestDefineWins ==
    /\ \A k1, k2 \in DOMAIN registry : Upper(k1) = Upper(k2) => k1 = k2
    /\ \A i \in DOMAIN defs : \E k \in DOMAIN registry : Upper(k) = Upper(defs[i][1])
    /\ \A k \in DOMAIN registry : DefinesOf(k) # {} /\ registry[k] = LastDefined(k)
    /\ \A name \in RegistryNames :
          DefinesOf(name) # {}
              => Fold(name) \in DOMAIN registry /\ registry[Fold(name)] = LastDefined(name)
    /\ lastCmd.kind = "MACRO"
          => DefinesOf(exp.called) # {} /\ exp.body = LastDefined(exp.called)

\* emptable was defined, then redefined as EMPTABLE with another body; the call
\* of emptable has run the second body
C17_Witness ==
    /\ Len(defs) = 2
    /\ defs[1] = <<"emptable", Hello>>
    /\ defs[2] = <<"EMPTABLE", SelfSql>>
    /\ DOMAIN registry = {"emptable"}
    /\ Finished
    /\ exp.called = "emptable"
    /\ exp.body = SelfSql
    /\ lastCmd.sql = << <<"emptable">> >>

\* C18: a define command changes only the registry entry of the name it
\* defines: it makes no driver call and leaves the autocommit flag, the live
\* handles, the prepared statements and every other registry entry as they
\* were; and no other command changes the registry.
C18_DefineChangesOneEntry ==
    [][ /\ defs' # defs
            => /\ lastCmd'.kind = "DEFINE"
               /\ lastCmd'.driver = <<>>
               /\ driverRuns' = driverRuns
               /\ autocommit' = autocommit
               /\ live' = live
               /\ stmts' = stmts
               /\ \E k \in DOMAIN registry' :
                     /\ Upper(k) = Upper(defs'[Len(defs')][1])
                     /\ registry'[k] = defs'[Len(defs')][2]
                     /\ DOMAIN registry' = DOMAIN registry \cup {k}
                     /\ \A o \in DOMAIN registry \ {k} : registry'[o] = registry[o]
        /\ defs' = defs => registry' = registry
      ]_vars

\* a second macro has been defined in a session that has a live handle and
\* autocommit off: the first macro is still there
C18_Witness ==
    /\ lastCmd.kind = "DEFINE"
    /\ Len(defs) = 2
    /\ Cardinality(DOMAIN registry) = 2
    /\ registry[Fold(defs[1][1])] = defs[1][2]
    /\ live = {1}
    /\ ~autocommit

\* the variables that the lines run so far in this invocation have assigned
AssignedHere(e) == {e.body[i].name : i \in {j \in e.ran : e.body[j].kw = "var"}}

NullNull == <<[kind |-> "echo", text |-> <<"null", "null">>]>>

\* C19: the scope is fresh for each invocation: a variable is set only if a var
\* line of this invocation has assigned it, whatever an earlier invocation of
\* the same or another macro assigned, so a variable the macro does not assign
\* renders null, and so does a positional slot of a token that this call was
\* not given, whatever tokens an earlier call had.
C19_ScopeFreshPerInvocation ==
    /\ \A v \in VarNames : exp.vars[v].set => v \in AssignedHere(exp)
    /\ exp.state = "RUNNING" /\ exp.pc = 0 => exp.vars = NoVars
    /\ Finished /\ exp.body = ShowScope
          => /\ exp.tokens = <<>> => display = NullNull
             /\ exp.tokens # <<>>
                   => display = <<[kind |-> "echo", text |-> <<"null", exp.tokens[1]>>]>>

\* the invocation before had set the variable hello and had a token; this one,
\* which assigns nothing and was given no token, shows null for both
C19_Witness ==
    /\ Finished
    /\ exp.body = ShowScope
    /\ exp.tokens = <<>>
    /\ exp.prior.vars = VarNames
    /\ exp.prior.argc = 1
    /\ display = NullNull

\* what the macro showvar of the notebook displays for a count
CountShown(n) == <<[kind |-> "echo", text |-> <<"The number of unnamed parameters is", n>>]>>

----------------------------------------------------------------------------
(* Properties of substitution *)

EchoOf(text) == [kind |-> "echo", text |-> text]

\* C21: a reference to something that does not exist is not an error: {n}
\* beyond the tokens given and {name} never assigned render as null, {*n} with
\* no token from n on renders as nothing, and the expansion carries on with
\* the rest of the line and the lines after it, to the end of the body.
C21_MissingReferenceIsNull ==
    /\ Finished /\ exp.body = ShowMissing
          => /\ exp.state = "RETURNED" /\ lastCmd.result = "ok"
             /\ lastCmd.sql = << <<"SELECT">> >>
             /\ Len(display) = 3
             /\ display[2] = EchoOf(<<"null", "next">>)
             /\ Len(exp.tokens) <= 1
                   => /\ display[1] = EchoOf(<<"null", "after">>)
                      /\ display[3] = EchoOf(<<"[", "]">>)
             /\ exp.tokens = <<"Hello", "There">>
                   => /\ display[1] = EchoOf(<<"There", "after">>)
                      /\ display[3] = EchoOf(<<"[", "There", "]">>)
             /\ exp.tokens = <<"hello", "there", "everyone">>
                   => /\ display[1] = EchoOf(<<"there", "after">>)
                      /\ display[3] = EchoOf(<<"[", "there", "everyone", "]">>)
    /\ Finished /\ exp.body = ShowVarTokens
          => /\ exp.state = "RETURNED" /\ lastCmd.result = "ok"
             /\ exp.tokens = <<"hello">>
                   => display = <<EchoOf(<<"Token(1)=", "hello", "<br>Token(2)=", "null",
                                           "<br>All=", exp.called, "hello",
                                           "<br>After Token 0=", "hello", "<br>Count=", "1">>)>>
             /\ exp.tokens = <<>>
                   => display = <<EchoOf(<<"Token(1)=", "null", "<br>Token(2)=", "null",
                                           "<br>All=", exp.called,
                                           "<br>After Token 0=", "<br>Count=", "0">>)>>

\* showvar hello has shown null for the second token and gone on to the count
C21_Witness ==
    /\ Finished
    /\ exp.body = ShowVarTokens
    /\ exp.tokens = <<"hello">>
    /\ exp.state = "RETURNED"
    /\ display[1].text[4] = "null"
    /\ display[1].text[11] = "1"

\* C22: {n} is replaced by token n and {*n} by the tokens from n to the last,
\* in their order and a blank apart: SELECT {1} FROM EMPLOYEE called as
\* emptable lastname gives SELECT lastname FROM EMPLOYEE, and
\* SELECT * FROM EMPLOYEE {*1} called as emptable where empno = '000010' gives
\* SELECT * FROM EMPLOYEE where empno = '000010'.
C22_PositionalAndTail ==
    /\ exp.state # "IDLE"
          => \A n \in 1..Len(exp.tokens) :
                /\ Subst(<<Pos(n)>>, exp) = <<exp.tokens[n]>>
                /\ Subst(<<Rest(n)>>, exp) = [i \in 1..(Len(exp.tokens) - n + 1) |->
                                                exp.tokens[n + i - 1]]
    /\ Finished /\ exp.body \in {EmpTableColumn, EmpTableTail}
          => exp.state = "RETURNED" /\ Len(lastCmd.sql) = 1 /\ lastCmd.driver = <<"sql">>
    /\ Finished /\ exp.body = EmpTableColumn /\ exp.tokens = <<"lastname">>
          => Spaced(lastCmd.sql[1]) = "SELECT lastname FROM EMPLOYEE"
    /\ Finished /\ exp.body = EmpTableTail
          => /\ exp.tokens = <<"where", "empno", "=", "'000010'">>
                   => Spaced(lastCmd.sql[1]) = "SELECT * FROM EMPLOYEE where empno = '000010'"
             /\ exp.tokens = <<"hello", "there", "everyone">>
                   => Spaced(lastCmd.sql[1]) = "SELECT * FROM EMPLOYEE hello there everyone"
             /\ exp.tokens = <<>> => Spaced(lastCmd.sql[1]) = "SELECT * FROM EMPLOYEE"

\* emptable where empno = '000010' has handed its statement to the driver
C22_Witness ==
    /\ Finished
    /\ exp.called = "emptable"
    /\ exp.body = EmpTableTail
    /\ exp.tokens = <<"where", "empno", "=", "'000010'">>
    /\ lastCmd.driver = <<"sql">>
    /\ Spaced(lastCmd.sql[1]) = "SELECT * FROM EMPLOYEE where empno = '000010'"

\* the body has no if and no var line
Plain(body) == \A i \in DOMAIN body : body[i].kw \notin {"if", "else", "endif", "var"}

\* an expander that has nothing behind it, at the start of the body
Pristine(body, name, tokens) ==
    [IdleExpander EXCEPT !.state = "RUNNING", !.called = name, !.body = body,
                         !.tokens = tokens]

\* the expander after the body has been run through from e
RECURSIVE RunThrough(_)
RunThrough(e) ==
    IF e.state \notin {"RUNNING", "SUPPRESSED"} THEN e
    ELSE IF e.pc < Len(e.body) THEN RunThrough(Process([e EXCEPT !.pc = @ + 1], <<>>).exp)
    ELSE AtEnd(e, <<>>).exp

\* C23: expansion is deterministic and leaves the registry untouched: the SQL
\* that a macro without if and var generates is the SQL that its body and
\* tokens generate in a session that has run nothing before, whatever
\* commands came before the call; so two expansions of the macro with the same
\* tokens, with no define of it in between, generate the same SQL. No step of
\* a macro call changes the registry.
C23_ExpansionDeterministic ==
    [][ /\ lastCmd'.kind = "MACRO" => registry' = registry
        /\ (Finished /\ Plain(exp.body))'
              => /\ exp'.state = RunThrough(Pristine(exp'.body, exp'.called, exp'.tokens)).state
                 /\ exp'.sql = RunThrough(Pristine(exp'.body, exp'.called, exp'.tokens)).sql
                 /\ exp'.state = "RETURNED" => lastCmd'.sql = exp'.sql
      ]_vars

\* the macro hello, whose SQL names the variable hello, has run with a token
\* right after a macro that set that variable
C23_Witness ==
    /\ Finished
    /\ exp.body = SqlScope
    /\ exp.called = "hello"
    /\ exp.tokens = <<"lastname">>
    /\ exp.prior.vars = VarNames
    /\ lastCmd.sql = << <<"SELECT", "null", "lastname">>, <<"lastname">> >>

----------------------------------------------------------------------------
(* Properties of the session state under every kind of command *)

TransactionDirectives == {"AUTOCOMMIT", "COMMIT", "COMMIT HOLD", "ROLLBACK"}

OtherCommands == {"DEFINE", "MACRO", "PREPARE", "EXECUTE", "CALL", "SQL"}

\* C24: the autocommit flag is changed only by a transaction directive: a
\* define, a macro call (each of its steps), a PREPARE, an EXECUTE, a CALL and
\* literal SQL leave it as it was, whether the command succeeds or fails.
C24_AutocommitOnlyByDirective ==
    [][ /\ autocommit' # autocommit => lastCmd'.kind \in TransactionDirectives
        /\ lastCmd'.kind \in OtherCommands => autocommit' = autocommit
      ]_vars

\* a CALL has failed on a lost connection in a session with autocommit off
C24_Witness ==
    /\ lastCmd.kind = "CALL"
    /\ lastCmd.result = "DriverError"
    /\ lastCmd.failure = "lost"
    /\ ~autocommit

\* the argument of the AUTOCOMMIT directive issued last
AutocommitArg == lastCmd.sql[1][2]

\* C25: AUTOCOMMIT ON leaves autocommit on and AUTOCOMMIT OFF leaves it off,
\* whatever the flag was before and in whatever letter case the argument is
\* written, so the same directive twice is the same as once; AUTOCOMMIT with
\* another argument or none is an error and leaves the flag as it was.
C25_AutocommitSetsOrFails ==
    [][ lastCmd'.kind = "AUTOCOMMIT"
            => /\ AutocommitArg' \in {"ON", "on"}
                     => autocommit' /\ lastCmd'.result = "ok"
               /\ AutocommitArg' \in {"OFF", "Off"}
                     => ~autocommit' /\ lastCmd'.result = "ok"
               /\ AutocommitArg' \notin {"ON", "on", "OFF", "Off"}
                     => autocommit' = autocommit /\ lastCmd'.result # "ok"
               /\ lastCmd.kind = "AUTOCOMMIT" /\ AutocommitArg' = AutocommitArg
                     => autocommit' = autocommit
               /\ lastCmd'.driver = <<>>
               /\ live' = live
      ]_vars

\* Autocommit Off has been issued in a session that holds a live handle
C25_Witness ==
    /\ lastCmd.kind = "AUTOCOMMIT"
    /\ AutocommitArg = "Off"
    /\ lastCmd.result = "ok"
    /\ ~autocommit
    /\ live # {}

\* C26: a driver failure is reported to the caller as DriverError after the
\* one driver call that failed, with no second attempt and nothing replayed,
\* and leaves the autocommit flag as it was; if the failure is a lost
\* connection every live handle becomes invalid, and after any other failure
\* the live handles are those from before.
C26_DriverErrorPassedOn ==
    [][ lastCmd'.result = "DriverError"
            => /\ lastCmd'.kind \in {"EXECUTE", "CALL", "SQL"}
               /\ lastCmd'.failure \in {"error", "lost"}
               /\ lastCmd'.driver \in {<<"execute">>, <<"call">>, <<"sql">>}
               /\ autocommit' = autocommit
               /\ stmts' = stmts /\ driverRuns' = driverRuns /\ okExecutes' = okExecutes
               /\ durable' = durable
               /\ lastCmd'.failure = "lost" => live' = {}
               /\ lastCmd'.failure = "error" => live' = live
      ]_vars

\* the connection was lost during an EXECUTE, in a session with autocommit
\* off: the handle that was live is no longer
C26_Witness ==
    /\ lastCmd.kind = "EXECUTE"
    /\ lastCmd.result = "DriverError"
    /\ lastCmd.failure = "lost"
    /\ lastCmd.liveBefore = {1}
    /\ live = {}
    /\ ~autocommit

\* C27: when statement k of a block fails with autocommit on, statements 1
\* to k-1 of the block are applied and committed and stay so: the failed
\* statement is not applied (it is committed only if an earlier block had
\* applied it), nothing committed before is undone, and the driver is asked
\* for no rollback.
C27_EarlierStatementsStay ==
    [][ lastCmd'.kind = "SQL" /\ lastCmd'.failedAt > 0 /\ autocommit
            => /\ lastCmd'.result = "DriverError"
               /\ \A i \in 1..(lastCmd'.failedAt - 1) : lastCmd'.sql[1][i] \in durable'
               /\ lastCmd'.sql[1][lastCmd'.failedAt] \in durable'
                     => lastCmd'.sql[1][lastCmd'.failedAt] \in durable \cup pending
               /\ durable \subseteq durable'
               /\ \A i \in DOMAIN lastCmd'.driver : lastCmd'.driver[i] = "sql"
               /\ Len(lastCmd'.driver) >= lastCmd'.failedAt
      ]_vars

\* the third statement of a block has failed with autocommit on: the first
\* two are committed, the third is not
C27_Witness ==
    /\ lastCmd.kind = "SQL"
    /\ lastCmd.result = "DriverError"
    /\ lastCmd.failedAt = 3
    /\ autocommit
    /\ durable = {1, 2}
    /\ pending = {}

----------------------------------------------------------------------------
(* Properties of CALL *)

\* the last command was a CALL that the driver carried out
Called == lastCmd.kind = "CALL" /\ lastCmd.result = "ok"

\* the procedure of the last CALL and the arguments it was given
TheArgs == SubSeq(lastCmd.sql[1], 3, Len(lastCmd.sql[1]))
TheProc == CHOOSE proc \in Procedures : lastCmd.sql[1][2] = proc.name /\ TheArgs \in CallArgs(proc)

\* the values of the inout and out parameters, in declared order
OutValues(proc) ==
    LET Upto[i \in 0..Len(proc.params)] ==
            IF i = 0 THEN <<>>
            ELSE IF proc.params[i] = "in" THEN Upto[i - 1]
            ELSE Append(Upto[i - 1], proc.sets[i])
    IN  Upto[Len(proc.params)]

\* the array of rows of the first cursor of the procedure, if it has one
FirstRows(proc) == IF proc.cursors = <<>> THEN <<>> ELSE ArrayOfRows(proc.cursors[1])

\* C28 as stated: with -r a CALL returns one composite value: first the
\* result set as array of rows with the column names as row 0, or nothing
\* when there is no result set, then the values of the inout and out
\* parameters in declared order; of several cursors only the first.
C28_RawCompositeOfOutputs ==
    Called /\ lastCmd.raw
        => /\ lastCmd.value.shape = "composite"
           /\ lastCmd.value.rows = FirstRows(TheProc)
           /\ lastCmd.value.vals = OutValues(TheProc)

\* C28 (amended): with -r a CALL of a procedure that returns a result set and
\* has parameters returns one composite value: first the result set as array
\* of rows with the column names as row 0, then the values of all the
\* parameters, in, inout and out, in declared order; without parameters it
\* returns the array of rows itself; without result set it returns the
\* parameter values alone, or None when there are no parameters either; of
\* several cursors only the first is carried.
C28_RawCompositeOfParameters ==
    Called /\ lastCmd.raw
        => /\ lastCmd.value.rows = FirstRows(TheProc)
           /\ Len(lastCmd.value.vals) = Len(TheProc.params)
           /\ \A i \in DOMAIN TheProc.params :
                 lastCmd.value.vals[i] = IF TheProc.params[i] = "in" THEN TheArgs[i]
                                         ELSE TheProc.sets[i]
           /\ lastCmd.value.shape =
                 IF TheProc.cursors # <<>> /\ TheProc.params # <<>> THEN "composite"
                 ELSE IF TheProc.cursors # <<>> THEN "rows"
                 ELSE IF TheProc.params # <<>> THEN "values"
                 ELSE "none"
           /\ TheProc = ShowEmp
                 => lastCmd.value.rows[1] = <<"EMPNO", "LASTNAME">>
                       /\ lastCmd.value.vals = <<"000010">>
           /\ TheProc = ShowDept => lastCmd.value.vals = <<"E11", "2">>
           /\ TheProc = DeptCount
                 => lastCmd.value = [shape |-> "values", rows |-> <<>>, vals |-> <<"E11", "2">>]
           /\ TheProc = TwoCursors => lastCmd.value.rows = ArrayOfRows(Employees)

\* answer, dept, count = %sql -r CALL SHOWDEPT('E11',null) has returned its
\* three values
C28_Witness ==
    /\ Called
    /\ lastCmd.raw
    /\ lastCmd.sql = << <<"CALL", "SHOWDEPT", "E11", "null">> >>
    /\ lastCmd.value.shape = "composite"
    /\ lastCmd.value.rows[1] = <<"EMPNO", "WORKDEPT">>
    /\ lastCmd.value.vals = <<"E11", "2">>

\* C29 as stated: without -r a CALL surfaces only the result set when there
\* is one, the parameter values being out of reach; when there is none it
\* surfaces the values of the out and inout parameters in order, and nothing
\* when the procedure has no parameters either.
C29_PlainResultOrOutputs ==
    Called /\ ~lastCmd.raw
        => IF TheProc.cursors # <<>>
           THEN lastCmd.value = [shape |-> "frame", rows |-> FirstRows(TheProc), vals |-> <<>>]
           ELSE IF TheProc.params = <<>> THEN lastCmd.value = NoValue
           ELSE lastCmd.value = [shape |-> "values", rows |-> <<>>,
                                 vals |-> OutValues(TheProc)]

\* C29 (amended): without -r a CALL surfaces only the result set when there
\* is one, the parameter values being out of reach; when there is none it
\* surfaces the values of all the parameters, in, inout and out, in declared
\* order, and nothing when the procedure has no parameters either.
C29_PlainResultOrParameters ==
    Called /\ ~lastCmd.raw
        => /\ TheProc.cursors # <<>>
                 => lastCmd.value = [shape |-> "frame", rows |-> FirstRows(TheProc),
                                     vals |-> <<>>]
           /\ TheProc.cursors = <<>> /\ TheProc.params = <<>> => lastCmd.value = NoValue
           /\ TheProc.cursors = <<>> /\ TheProc.params # <<>>
                 => /\ lastCmd.value.shape = "values"
                    /\ lastCmd.value.rows = <<>>
                    /\ Len(lastCmd.value.vals) = Len(TheProc.params)
                    /\ \A i \in DOMAIN TheProc.params :
                          lastCmd.value.vals[i] = IF TheProc.params[i] = "in" THEN TheArgs[i]
                                                  ELSE TheProc.sets[i]
           /\ TheProc = OneParm => lastCmd.value.vals = <<"2">>
           /\ TheProc = DeptCount => lastCmd.value.vals = <<"E11", "2">>

\* %sql call oneparm(1) has returned the parameter, which is now 2
C29_Witness ==
    /\ Called
    /\ ~lastCmd.raw
    /\ lastCmd.sql = << <<"CALL", "ONEPARM", "1">> >>
    /\ lastCmd.value = [shape |-> "values", rows |-> <<>>, vals |-> <<"2">>]

----------------------------------------------------------------------------
(* Properties of two sessions *)

\* C30: each session has its own macros, autocommit setting and prepared
\* statements: a define, AUTOCOMMIT, COMMIT, ROLLBACK or PREPARE of this
\* session changes nothing of what the other session observes, and a command
\* of the other session changes neither the macros nor the autocommit value
\* nor the live handles of this one.
C30_SessionsApart ==
    [][ /\ other.odd' = other.odd => other' = other
        /\ other.odd' # other.odd
              => /\ registry' = registry
                 /\ autocommit' = autocommit
                 /\ live' = live
                 /\ stmts' = stmts ]_vars

\* both notebooks have worked: this one has defined emptable, kept autocommit
\* on and holds a live handle; the other has no macro, has turned autocommit
\* off and has lost its handle at a commit
C30_Witness ==
    /\ "emptable" \in DOMAIN registry
    /\ other.registry = EmptyRegistry
    /\ autocommit
    /\ ~other.autocommit
    /\ live = {1}
    /\ other.handles = 1
    /\ other.live = {}

----------------------------------------------------------------------------
(* Properties of nested if blocks and of the end of an expansion *)

\* the if lines that are open at line i, and the outermost of them
OpenIfs(body, i) == {j \in 1..(i - 1) : Encloses(body, j, i)}

\* line i lies in a branch that some enclosing if has not selected
InSkippedBranch(e, i) == \E j \in OpenIfs(e.body, i) : ~InChosenBranch(e, j, i)

\* if {argc} <> 0 / if {argc} = 0 / echo A / else / echo B / endif / else /
\* echo A / endif
SkippedOuter == <<IfArgs, IfNoArgs, EchoA, Else, EchoB, Endif, Else, EchoA, Endif>>

\* C32: a line is processed only if every open if is active: inside an
\* inactive outer branch the branch of an inner if whose condition is true
\* and the else branch of an inner if whose condition is false stay skipped;
\* the inner if, else and endif are still counted, so that the inner endif
\* closes the inner if and the outer else and endif apply to the outer one.
C32_EveryFrameActive ==
    /\ exp.state # "IDLE"
          => \A i \in 1..exp.pc : InSkippedBranch(exp, i) => i \notin exp.ran
    /\ Expanding
          => /\ Len(exp.stack) = OpenBefore(exp.body, exp.pc + 1)
             /\ Len(exp.stack) = Cardinality(OpenIfs(exp.body, exp.pc + 1))
             /\ exp.stack # <<>>
                   => exp.stack[1]
                        = InChosenBranch(exp, MinOf(OpenIfs(exp.body, exp.pc + 1)), exp.pc + 1)
             /\ (exp.state = "RUNNING") = ~InSkippedBranch(exp, exp.pc + 1)
    /\ exp.body \in NestedBodies /\ exp.state # "IDLE" /\ ~Holds(exp.body[1], exp)
          => /\ exp.ran \cap {3, 5} = {}
             /\ exp.pc = 6 => Len(exp.stack) = 1 /\ exp.state = "SUPPRESSED"
             /\ exp.pc = 7 => exp.stack = <<TRUE>> /\ exp.state = "RUNNING"
             /\ exp.pc >= 8 => 8 \in exp.ran

\* with no token the outer if of SkippedOuter is false and the inner one true:
\* both inner branches were skipped and the outer else branch has echoed A
C32_Witness ==
    /\ exp.body = SkippedOuter
    /\ exp.tokens = <<>>
    /\ exp.state = "RETURNED"
    /\ exp.ran = {8}
    /\ display = <<EchoMsg("A")>>

\* C33: with autocommit on, the commit that follows each statement does not
\* close the prepared statements: a live handle stays live across every
\* EXECUTE and every other command, until a COMMIT without HOLD, a ROLLBACK
\* or the loss of the connection.
C33_ImplicitCommitKeepsHandles ==
    [][ \A h \in live :
            /\ autocommit
            /\ lastCmd'.kind \notin {"COMMIT", "ROLLBACK"}
            /\ lastCmd'.failure # "lost"
            => h \in live' ]_vars

\* the statement prepared with autocommit on has been executed, a statement
\* after it has been committed at once, and the handle is still live
C33_Witness ==
    /\ autocommit
    /\ 1 \in live
    /\ okExecutes[1] = 1
    /\ lastCmd.kind = "SQL"
    /\ lastCmd.result = "ok"
    /\ 1 \in durable
    /\ committed = {}
    /\ rolledBack = {}

\* C34: a handle that was invalidated never becomes live again, whatever is
\* prepared afterwards, and an EXECUTE of it fails with
\* UnknownStatementHandle; every PREPARE returns a handle that differs from
\* every handle returned before; live handles exist side by side, and an
\* EXECUTE invalidates neither its own handle nor any other.
C34_HandlesNeverReturn ==
    [][ /\ \A h \in Handles : h \notin live => h \notin live'
        /\ lastCmd'.kind = "PREPARE"
              => /\ lastCmd'.handle \notin Handles
                 /\ Handles' = Handles \cup {lastCmd'.handle}
                 /\ live' = live \cup {lastCmd'.handle}
                 /\ \A h \in Handles : stmts'[h] = stmts[h]
        /\ lastCmd'.kind = "EXECUTE"
              => /\ lastCmd'.failure # "lost" => live' = live
                 /\ lastCmd'.handle \notin live
                       => lastCmd'.result = "UnknownStatementHandle"
                 /\ Handles' = Handles ]_vars

\* the first statement was closed and the same text prepared again: the new
\* handle is live, and an EXECUTE of the first one is refused
C34_Witness ==
    /\ Len(stmts) = 2
    /\ stmts[1] = stmts[2]
    /\ live = {2}
    /\ lastCmd.kind = "EXECUTE"
    /\ lastCmd.handle = 1
    /\ lastCmd.result = "UnknownStatementHandle"

\* C35: every expansion terminates: the lines of the body are processed one
\* after the other, each at most once, and the expansion ends in RETURNED, in
\* EXITED or with a structural error; after RETURNED or EXITED no line is
\* processed until the next invocation starts at the top of its body.
C35_ExpansionTerminates ==
    /\ [][ /\ Expanding
                => /\ exp'.body = exp.body /\ exp'.tokens = exp.tokens
                   /\ exp'.pc = IF exp.pc < Len(exp.body) THEN exp.pc + 1 ELSE exp.pc
                   /\ exp'.ran \ exp.ran \subseteq {exp'.pc} \ {exp.pc}
                   /\ exp.ran \subseteq exp'.ran
                   /\ exp'.state \in {"RUNNING", "SUPPRESSED", "RETURNED", "EXITED", "ERROR"}
                   /\ (exp'.state = "ERROR" => lastCmd'.result = "MalformedMacroBody")
           /\ exp.state \in {"RETURNED", "EXITED"} /\ exp' # exp
                => exp'.state = "RUNNING" /\ exp'.pc = 0 /\ exp'.ran = {}
                      /\ display' = <<>> ]_vars
    /\ [](exp.state \in {"RETURNED", "EXITED"} => ~ENABLED ExpandStep /\ ~ENABLED EndOfBody)
    /\ (Expanding ~> Finished)

\* showif, called with one token, has ended at its last line after it
\* processed every line of its body
C35_Witness ==
    /\ exp.body = ShowIf
    /\ Len(exp.tokens) = 1
    /\ exp.state = "RETURNED"
    /\ exp.pc = Len(ShowIf)
    /\ exp.ran = {5}

\* the k-th smallest number of a set
NthOf(S, k) == CHOOSE x \in S : Cardinality({y \in S : y < x}) = k - 1

\* the lines of SQL that took effect, in body order
SqlRan(e) == {i \in e.ran : e.body[i].kw = "sql"}

\* C36: a body that ends without an active return or exit behaves as if a
\* return followed its last line: the generated SQL is exactly the
\* substituted lines of SQL of the active branches, in body order, joined by
\* single blanks; comment, echo and var lines add nothing to it.
C36_ImplicitReturn ==
    Finished /\ exp.state = "RETURNED" /\ ~EndedByLine(exp)
        => LET asif == RunThrough(Pristine(Append(exp.body, Return), exp.called,
                                           exp.tokens))
           IN  /\ exp.pc = Len(exp.body)
               /\ asif.state = "RETURNED"
               /\ asif.sql = exp.sql
               /\ asif.vars = exp.vars
               /\ asif.ran = exp.ran \cup {Len(exp.body) + 1}
               /\ lastCmd.result = "ok"
               /\ lastCmd.sql = exp.sql
               /\ Len(lastCmd.sql) = Cardinality(SqlRan(exp))
               /\ \A k \in DOMAIN lastCmd.sql :
                     lastCmd.sql[k] = Subst(exp.body[NthOf(SqlRan(exp), k)].a, exp)
               /\ \A i \in DOMAIN exp.body : i \in SqlRan(exp)
                     <=> exp.body[i].kw = "sql" /\ InActiveBranch(exp, i)
               /\ lastCmd.text = Spaced(Words(lastCmd.sql))
               /\ lastCmd.driver = (IF lastCmd.sql = <<>> THEN <<>> ELSE <<"sql">>)
               /\ exp.body = Mixed /\ exp.tokens = <<"hello", "hello">>
                     => lastCmd.text = "SELECT hello FROM EMPLOYEE WHERE hello = hello"
               /\ exp.body = Mixed /\ exp.tokens = <<>>
                     => lastCmd.text = "SELECT null FROM EMPLOYEE WHERE null = null"
               /\ exp.body = Hello => lastCmd.text = "" /\ lastCmd.sql = <<>>

\* the body with a comment, a var, an echo and three lines of SQL has ended
\* at its last line and handed on the three lines as one statement
C36_Witness ==
    /\ Finished
    /\ exp.body = Mixed
    /\ exp.tokens = <<"hello", "hello">>
    /\ exp.state = "RETURNED"
    /\ exp.pc = 6
    /\ Len(lastCmd.sql) = 3
    /\ lastCmd.text = "SELECT hello FROM EMPLOYEE WHERE hello = hello"
    /\ Len(display) = 1

TokenOr(n) == IF n <= Len(exp.tokens) THEN exp.tokens[n] ELSE "null"

\* C38: substitution is one pass from left to right: the text put in the
\* place of a reference is not scanned again, so a token or a variable value
\* that is written like a reference, as the token {2}, appears as it is, and
\* every reference of a line is replaced exactly once.
C38_SinglePass ==
    Finished /\ exp.state = "RETURNED"
        => /\ exp.body = EmpTableColumn
                 => lastCmd.sql = << <<"SELECT", TokenOr(1), "FROM", "EMPLOYEE">> >>
           /\ exp.body = EmpTableTail
                 => lastCmd.sql = << <<"SELECT", "*", "FROM", "EMPLOYEE">> \o exp.tokens >>
           /\ exp.body = ShowScope
                 => display = <<EchoOf(<<"null", TokenOr(1)>>)>>
           /\ exp.body = Mixed
                 => /\ exp.vars["hello"].val = <<TokenOr(1)>>
                    /\ lastCmd.sql = << <<"SELECT", TokenOr(1)>>, <<"FROM", "EMPLOYEE">>,
                                        <<"WHERE", TokenOr(1), "=", TokenOr(2)>> >>
           /\ \A k \in DOMAIN lastCmd.sql :
                 LET line == exp.body[NthOf(SqlRan(exp), k)].a
                 IN  (\A j \in DOMAIN line : line[j].p # "star")
                         => Len(lastCmd.sql[k]) = Len(line)

\* the macro was called with the tokens {2} and lastname: the token {2} stands
\* in the statement as it was written, also where it came in by the variable
C38_Witness ==
    /\ Finished
    /\ exp.body = Mixed
    /\ exp.tokens = <<"{2}", "lastname">>
    /\ exp.state = "RETURNED"
    /\ exp.vars["hello"].val = <<"{2}">>
    /\ lastCmd.text = "SELECT {2} FROM EMPLOYEE WHERE {2} = lastname"

\* the var lines of name x that have taken effect before line i
VarsBefore(e, x, i) ==
    {j \in 1..(i - 1) : /\ e.body[j].kw = "var"
                        /\ e.body[j].name = x
                        /\ ~InSkippedBranch(e, j)}

\* the remainder of the var line j, substituted
Remainder(e, j) == Subst(e.body[j].a, e)

RECURSIVE Render(_, _, _)
\* the words of a text at line i, each name standing for the remainder of
\* the latest var line of that name
Render(text, e, i) ==
    IF text = <<>> THEN <<>>
    ELSE LET piece == Head(text)
             before == IF piece.p = "name" THEN VarsBefore(e, piece.s, i) ELSE {}
         IN  (IF piece.p = "name" /\ before # {}
                  THEN Remainder(e, NthOf(before, Cardinality(before)))
                  ELSE Value(piece, [e EXCEPT !.vars = NoVars]))
             \o Render(Tail(text), e, i)

EchoRan(e) == {i \in e.ran : e.body[i].kw = "echo"}

\* C39: a var line in an active branch binds its name to the substituted
\* remainder of the line, quotes kept; a later var of the same name in the
\* same invocation replaces the value; no other line and no var line in an
\* inactive branch changes a variable; a {name} on a later line renders the
\* latest value.
C39_VarBindsLatest ==
    /\ [][ Expanding /\ exp'.body = exp.body /\ exp'.pc = exp.pc + 1 /\ exp'.state # "ERROR"
               => LET line == exp.body[exp'.pc]
                  IN  IF line.kw = "var" /\ ~InSkippedBranch(exp, exp'.pc)
                      THEN exp'.vars = [exp.vars EXCEPT ![line.name] =
                                            [set |-> TRUE, val |-> Subst(line.a, exp)]]
                      ELSE exp'.vars = exp.vars ]_vars
    /\ [](\A k \in 1..Cardinality(EchoRan(exp)) :
             k <= Len(display)
                 => LET i == NthOf(EchoRan(exp), k)
                    IN  display[k] = EchoOf(Render(exp.body[i].a, exp, i)))
    /\ [](Finished /\ exp.body = RunIt
             => display = <<EchoOf(<<"This is a long string without quotes", "<br>",
                                    "'This is a long string with quotes'">>)>>)
    /\ [](Finished /\ exp.body = VarTwice /\ exp.tokens = <<>>
             => /\ display = <<EchoOf(<<"first">>), EchoOf(<<"'no tokens'", "null">>)>>
                /\ lastCmd.sql = << <<"SELECT", "'no tokens'">> >>
                /\ ~exp.vars["hello2"].set)

\* the macro was called with a token: the variable set first has kept its
\* value, because the var line that sets it again lies in the branch that
\* was not chosen, and the variable of the other branch holds the token and
\* the quoted text
C39_Witness ==
    /\ Finished
    /\ exp.body = VarTwice
    /\ exp.tokens = <<"lastname">>
    /\ exp.vars["hello"].val = <<"first">>
    /\ exp.vars["hello2"].val = <<"lastname", "'quoted'">>
    /\ display = <<EchoOf(<<"first">>), EchoOf(<<"first", "lastname", "'quoted'">>)>>

----------------------------------------------------------------------------
(* Properties of the values bound by EXECUTE *)

RECURSIVE ValueAt(_, _)
\* the i-th value of a USING list, counted through its arguments in order
ValueAt(args, i) ==
    IF i <= Len(Head(args).vals) THEN Head(args).vals[i]
    ELSE ValueAt(Tail(args), i - Len(Head(args).vals))

\* C40: a container argument of a USING list is expanded in place, in element
\* order: the i-th value of the flattened list is bound to the i-th parameter
\* marker, so two arrays bind the same values to the same markers as the ten
\* values listed one by one; where the arrays are split does not matter, also
\* against (?*3,?*7), as long as the total is the statement's parameterCount.
C40_BoundInOrder ==
    lastCmd.kind = "EXECUTE" /\ lastCmd.handle \in lastCmd.liveBefore
        => LET n == stmts[lastCmd.handle].parameterCount
           IN  /\ FlatCount(lastCmd.using) = n
                     => /\ lastCmd.result # "ParameterCountMismatch"
                        /\ lastCmd.bound = [i \in 1..n |-> ValueAt(lastCmd.using, i)]
               /\ lastCmd.using \in TwoArrays \cup {Individually} /\ n = 10
                     => lastCmd.bound = TenValues
               /\ FlatCount(lastCmd.using) # n => lastCmd.bound = <<>>

\* the ten values in arrays of 5 and 5 have been bound, in order, to the
\* markers of INSERT INTO X VALUES (?*3,?*7)
C40_Witness ==
    /\ lastCmd.kind = "EXECUTE"
    /\ lastCmd.result = "ok"
    /\ stmts[lastCmd.handle].src = StarThreeSeven
    /\ Len(lastCmd.using) = 2
    /\ Len(lastCmd.using[1].vals) = 5
    /\ lastCmd.bound = TenValues

----------------------------------------------------------------------------
(* Properties of the Tokenizer *)

\* the quote that is open after each number of characters of the line
OpenAfter(line) ==
    LET Q[i \in 0..Len(line)] ==
            IF i = 0 THEN ""
            ELSE LET open == Q[i - 1]
                 IN  IF open # "" THEN (IF line[i] = open THEN "" ELSE open)
                     ELSE IF line[i] \in QuoteChars THEN line[i]
                     ELSE ""
    IN  Q

\* the blanks outside quotes
Separators(line) == {i \in DOMAIN line : line[i] = Blank /\ OpenAfter(line)[i - 1] = ""}

\* where a token starts, and where the token that starts at s ends
Starts(line) ==
    {i \in DOMAIN line : i \notin Separators(line) /\ (i = 1 \/ i - 1 \in Separators(line))}

EndOf(line, s) ==
    CHOOSE j \in s..Len(line) :
        /\ \A i \in s..j : i \notin Separators(line)
        /\ j = Len(line) \/ j + 1 \in Separators(line)

\* C31: the tokens of a line are its stretches between blanks outside quotes,
\* in order: a quoted string is one token with its quotes and its blanks, a
\* quote of the other kind does not end it, parentheses and commas neither
\* split nor join, the empty line has no tokens, and
\* LIST 1234 "Here's a string" AbCD-12 'String' has exactly 5.
C31_TokensBetweenUnquotedBlanks ==
    scan.done
        => /\ Len(scan.tokens) = Cardinality(Starts(scan.line))
           /\ \A k \in DOMAIN scan.tokens :
                 LET s == NthOf(Starts(scan.line), k)
                 IN  scan.tokens[k] = SubSeq(scan.line, s, EndOf(scan.line, s))
           /\ scan.line = <<>> => scan.tokens = <<>>
           /\ scan.line = <<"'", "a", Blank, "'">> => scan.tokens = <<scan.line>>
           /\ scan.line = <<"\"", "'", Blank, "\"">> => scan.tokens = <<scan.line>>
           /\ scan.line = <<"a", "(", ",", "a">> => scan.tokens = <<scan.line>>
           /\ scan.line = <<"(", Blank, ",">> => scan.tokens = << <<"(">>, <<",">> >>
           /\ scan.line = ListLine
                 => /\ Len(scan.tokens) = 5
                    /\ scan.tokens[1] = <<"L", "I", "S", "T">>
                    /\ scan.tokens[3] = SubSeq(ListLine, 11, 27)
                    /\ scan.tokens[5] = <<"'", "S", "t", "r", "i", "n", "g", "'">>
           /\ scan.line = ListParens
                 => /\ Len(scan.tokens) = 4
                    /\ scan.tokens[2] = SubSeq(ListParens, 6, 28)

\* the line of the notebook has been split into its 5 tokens, the third one
\* the string in double quotes with its two blanks and its apostrophe
C31_Witness ==
    /\ scan.done
    /\ scan.line = ListLine
    /\ Len(scan.tokens) = 5
    /\ Len(scan.tokens[3]) = 17
    /\ scan.tokens[3][1] = "\""
    /\ scan.tokens[3][17] = "\""
    /\ Cardinality({i \in 1..17 : scan.tokens[3][i] = Blank}) = 2

Next ==
    NextTxn \/ NextBind \/ NextExpand \/ NextDispatch \/ NextRegistry \/ NextArgc
        \/ NextReplay \/ NextSession \/ NextBlock \/ NextCall \/ NextTwo
        \/ NextTokens \/ NextRun \/ NextBraces

Spec == Init /\ [][Next]_vars

====
